---------------------------- MODULE Spec2Model ----------------------------
(***************************************************************************)
(* Tx_Snap_RAG: the hybrid retriever (src/src/rag/retrieve.py), its        *)
(* confidence gate, and the two consumers that turn a RetrievalResult      *)
(* into an answer (src/src/api/main.py, src/src/rag/rag_answer.py).        *)
(*                                                                         *)
(* Floats are fixed-point integers in units of 1/Scale (1e-4): 0.12 is     *)
(* 1200, 0.001 is 10.  Divisions round toward minus infinity.              *)
(* A text is a sequence of symbols: words (runs of ASCII letters/digits,   *)
(* possibly upper case), " " (white space) and "?" (punctuation).          *)
(* A python dict is a sequence of [key, ...] records in insertion order.   *)
(***************************************************************************)
EXTENDS Integers, Sequences, FiniteSets, TLC

VARIABLES
    fs,             \* the files and environment the process is started with
    state,          \* application.state of the API (set by _startup)
    REQUESTS_TOTAL, \* the prometheus counter, by status label
    ANSWER_ATTEMPTS_TOTAL, \* the prometheus counter, by (mode, should_answer)
    llm_calls,      \* how many generation calls (ollama) were made so far
    inp,            \* the arguments of the last operation
    out             \* what the last operation returned or raised

vars == <<fs, state, REQUESTS_TOTAL, ANSWER_ATTEMPTS_TOTAL, llm_calls, inp, out>>

---------------------------------------------------------------------------
(* Numbers *)

Scale == 10000

\* retrieve.py:300  lexical_ok = top.coverage >= 0.12 or ...
LexicalCoverageMin == 1200
\* retrieve.py:309  ... and top.coverage < 0.08
DenseCoverageMin == 800
\* retrieve.py:316  margin < 0.001
AmbiguousMargin == 10
\* retrieve.py:316  top.coverage < 0.10
AmbiguousCoverage == 1000
\* retrieve.py:316  top.dense_score < (min_score + 0.03)
AmbiguousDenseSlack == 300

Max2(a, b) == IF a >= b THEN a ELSE b
Min2(a, b) == IF a <= b THEN a ELSE b

---------------------------------------------------------------------------
(* Hit and RetrievalResult (retrieve.py:47-64) *)

Hit(score, row, id, metadata, text, dense_score, bm25_score, coverage) ==
    [score |-> score, row |-> row, id |-> id, metadata |-> metadata,
     text |-> text, dense_score |-> dense_score, bm25_score |-> bm25_score,
     coverage |-> coverage]

RetrievalResult(hits, mode, should_answer, reason) ==
    [hits |-> hits, mode |-> mode, should_answer |-> should_answer,
     reason |-> reason]

Modes == {"hybrid", "dense-only", "bm25-only", "none"}

---------------------------------------------------------------------------
(* Retriever._confidence_gate (retrieve.py:291-318) *)

\* A plausible slip: the ambiguity check compares the margin with <=.
_confidence_gate_margin_le(hits, mode, min_score) ==
    IF hits = <<>> THEN <<FALSE, "no_candidates">>
    ELSE
    LET top == hits[1]
        second_score == IF Len(hits) > 1 THEN hits[2].score ELSE 0
        margin == top.score - second_score
        lexical_ok == top.coverage >= LexicalCoverageMin \/ top.bm25_score > 0
        dense_ok == top.dense_score >= min_score
    IN  IF mode = "bm25-only"
        THEN IF ~lexical_ok THEN <<FALSE, "low_lexical_support">> ELSE <<TRUE, "ok">>
        ELSE IF mode = "dense-only"
        THEN IF ~dense_ok /\ top.coverage < DenseCoverageMin
             THEN <<FALSE, "low_dense_support">> ELSE <<TRUE, "ok">>
        ELSE IF ~lexical_ok /\ ~dense_ok THEN <<FALSE, "low_hybrid_support">>
        ELSE IF margin <= AmbiguousMargin /\ top.coverage < AmbiguousCoverage
                /\ top.dense_score < min_score + AmbiguousDenseSlack
        THEN <<FALSE, "ambiguous_top_hit">>
        ELSE <<TRUE, "ok">>

\* A plausible slip: the lexical branch also asks for the dense floor.
_confidence_gate_lexical_floor(hits, mode, min_score) ==
    IF hits = <<>> THEN <<FALSE, "no_candidates">>
    ELSE
    LET top == hits[1]
        second_score == IF Len(hits) > 1 THEN hits[2].score ELSE 0
        margin == top.score - second_score
        lexical_ok == top.coverage >= LexicalCoverageMin \/ top.bm25_score > 0
        dense_ok == top.dense_score >= min_score
    IN  IF mode = "bm25-only"
        THEN IF ~lexical_ok \/ top.score < min_score
             THEN <<FALSE, "low_lexical_support">> ELSE <<TRUE, "ok">>
        ELSE IF mode = "dense-only"
        THEN IF ~dense_ok /\ top.coverage < DenseCoverageMin
             THEN <<FALSE, "low_dense_support">> ELSE <<TRUE, "ok">>
        ELSE IF ~lexical_ok /\ ~dense_ok THEN <<FALSE, "low_hybrid_support">>
        ELSE IF margin < AmbiguousMargin /\ top.coverage < AmbiguousCoverage
                /\ top.dense_score < min_score + AmbiguousDenseSlack
        THEN <<FALSE, "ambiguous_top_hit">>
        ELSE <<TRUE, "ok">>

\* A plausible slip: the dense-only branch forgets the coverage alternative.
_confidence_gate_dense_strict(hits, mode, min_score) ==
    IF hits = <<>> THEN <<FALSE, "no_candidates">>
    ELSE
    LET top == hits[1]
        second_score == IF Len(hits) > 1 THEN hits[2].score ELSE 0
        margin == top.score - second_score
        lexical_ok == top.coverage >= LexicalCoverageMin \/ top.bm25_score > 0
        dense_ok == top.dense_score >= min_score
    IN  IF mode = "bm25-only"
        THEN IF ~lexical_ok THEN <<FALSE, "low_lexical_support">> ELSE <<TRUE, "ok">>
        ELSE IF mode = "dense-only"
        THEN IF ~dense_ok
             THEN <<FALSE, "low_dense_support">> ELSE <<TRUE, "ok">>
        ELSE IF ~lexical_ok /\ ~dense_ok THEN <<FALSE, "low_hybrid_support">>
        ELSE IF margin < AmbiguousMargin /\ top.coverage < AmbiguousCoverage
                /\ top.dense_score < min_score + AmbiguousDenseSlack
        THEN <<FALSE, "ambiguous_top_hit">>
        ELSE <<TRUE, "ok">>

\* A plausible slip: the hybrid support check asks for both families.
_confidence_gate_hybrid_and(hits, mode, min_score) ==
    IF hits = <<>> THEN <<FALSE, "no_candidates">>
    ELSE
    LET top == hits[1]
        second_score == IF Len(hits) > 1 THEN hits[2].score ELSE 0
        margin == top.score - second_score
        lexical_ok == top.coverage >= LexicalCoverageMin \/ top.bm25_score > 0
        dense_ok == top.dense_score >= min_score
    IN  IF mode = "bm25-only"
        THEN IF ~lexical_ok THEN <<FALSE, "low_lexical_support">> ELSE <<TRUE, "ok">>
        ELSE IF mode = "dense-only"
        THEN IF ~dense_ok /\ top.coverage < DenseCoverageMin
             THEN <<FALSE, "low_dense_support">> ELSE <<TRUE, "ok">>
        ELSE IF ~lexical_ok \/ ~dense_ok THEN <<FALSE, "low_hybrid_support">>
        ELSE IF margin < AmbiguousMargin /\ top.coverage < AmbiguousCoverage
                /\ top.dense_score < min_score + AmbiguousDenseSlack
        THEN <<FALSE, "ambiguous_top_hit">>
        ELSE <<TRUE, "ok">>

\* The gate: a pair <<should_answer, reason>>.
_confidence_gate(hits, mode, min_score) ==
    IF hits = <<>> THEN <<FALSE, "no_candidates">>
    ELSE
    LET top == hits[1]
        second_score == IF Len(hits) > 1 THEN hits[2].score ELSE 0
        margin == top.score - second_score
        lexical_ok == top.coverage >= LexicalCoverageMin \/ top.bm25_score > 0
        dense_ok == top.dense_score >= min_score
    IN  IF mode = "bm25-only"
        THEN IF ~lexical_ok THEN <<FALSE, "low_lexical_support">> ELSE <<TRUE, "ok">>
        ELSE IF mode = "dense-only"
        THEN IF ~dense_ok /\ top.coverage < DenseCoverageMin
             THEN <<FALSE, "low_dense_support">> ELSE <<TRUE, "ok">>
        \* hybrid (and any other mode string)
        ELSE IF ~lexical_ok /\ ~dense_ok THEN <<FALSE, "low_hybrid_support">>
        ELSE IF margin < AmbiguousMargin /\ top.coverage < AmbiguousCoverage
                /\ top.dense_score < min_score + AmbiguousDenseSlack
        THEN <<FALSE, "ambiguous_top_hit">>
        ELSE <<TRUE, "ok">>

---------------------------------------------------------------------------
(* Text, tokens, rows *)

Words == {"snap", "SNAP", "food", "apply", "zebra"}

\* str.lower() on one symbol.
Lower(sym) == IF sym = "SNAP" THEN "snap" ELSE sym

\* str.strip(): leading and trailing white space removed.
RECURSIVE strip(_)
strip(text) ==
    IF text = <<>> THEN <<>>
    ELSE IF Head(text) = " " THEN strip(Tail(text))
    ELSE IF text[Len(text)] = " " THEN strip(SubSeq(text, 1, Len(text) - 1))
    ELSE text

\* str(...).strip() of an id: "" and the blank id " " are both empty.
strip_id(id) == IF id = " " THEN "" ELSE id

\* _tokenize (retrieve.py:23-24): the runs of [a-z0-9] of the lowered text.
RECURSIVE _tokenize(_)
_tokenize(text) ==
    IF text = <<>> THEN <<>>
    ELSE IF Head(text) \in Words
         THEN <<Lower(Head(text))>> \o _tokenize(Tail(text))
         ELSE _tokenize(Tail(text))

SeqSet(seq) == { seq[i] : i \in 1..Len(seq) }

\* Floor division for either sign of the divisor.
Div(a, b) == IF b > 0 THEN a \div b ELSE (0 - a) \div (0 - b)

\* A plausible slip: the reciprocal rank is taken without the constant k.
_rrf_no_k(rank) == Scale \div rank

\* _rrf (retrieve.py:27-28), k = 60.
_rrf(rank) == Scale \div (60 + rank)

\* Retriever._coverage (retrieve.py:225-233).
_coverage(query_tokens, text_tokens) ==
    IF query_tokens = <<>> THEN 0
    ELSE LET q == SeqSet(query_tokens)
             t == SeqSet(text_tokens)
         IN  (Cardinality(q \cap t) * Scale) \div Cardinality(q)

\* A row of the chunk-record source and of the dense meta source.
ChunkRow(chunk_id, text, doc_id, url, start_char, end_char) ==
    [chunk_id |-> chunk_id, text |-> text, doc_id |-> doc_id, url |-> url,
     start_char |-> start_char, end_char |-> end_char]

MetaRow(id, text, doc_id, url, start_char, end_char) ==
    [id |-> id, text |-> text,
     metadata |-> [doc_id |-> doc_id, url |-> url,
                   start_char |-> start_char, end_char |-> end_char]]

\* Retriever._payload_from_chunk_row (retrieve.py:136-150); of the metadata the
\* fields doc_id, url, start_char, end_char are kept (kind, token_estimate and
\* created_at are copied the same way).
_payload_from_chunk_row(row) ==
    [id |-> row.chunk_id,
     metadata |-> [doc_id |-> row.doc_id, url |-> row.url,
                   start_char |-> row.start_char, end_char |-> row.end_char],
     text |-> row.text]

\* Retriever._payload_from_meta_row (retrieve.py:152-158).
_payload_from_meta_row(row) ==
    [id |-> row.id, metadata |-> row.metadata, text |-> row.text]

EmptyMetadata == [doc_id |-> "", url |-> "", start_char |-> 0, end_char |-> 0]

---------------------------------------------------------------------------
(* Retriever.__init__ (retrieve.py:70-134) *)

\* The rows usable for the lexical index, in file order (retrieve.py:113-132).
RECURSIVE Bm25ChunkRows(_)
Bm25ChunkRows(rows) ==
    IF rows = <<>> THEN <<>>
    ELSE LET row == Head(rows)
         IN  IF strip_id(row.chunk_id) = "" \/ strip(row.text) = <<>>
             THEN Bm25ChunkRows(Tail(rows))
             ELSE <<[id |-> strip_id(row.chunk_id),
                     payload |-> _payload_from_chunk_row(row),
                     tokens |-> _tokenize(strip(row.text))]>>
                  \o Bm25ChunkRows(Tail(rows))

RECURSIVE Bm25MetaRows(_)
Bm25MetaRows(rows) ==
    IF rows = <<>> THEN <<>>
    ELSE LET row == Head(rows)
         IN  IF strip_id(row.id) = "" \/ strip(row.text) = <<>>
             THEN Bm25MetaRows(Tail(rows))
             ELSE <<[id |-> strip_id(row.id),
                     payload |-> _payload_from_meta_row(row),
                     tokens |-> _tokenize(strip(row.text))]>>
                  \o Bm25MetaRows(Tail(rows))

\* The constructed Retriever, or the exception __init__ raises.  f.index is the
\* vector count of the index file, -1 when the file does not exist.
Retriever(f) ==
    IF ~f.config THEN [ok |-> FALSE, error |-> "FileNotFoundError"]
    ELSE IF f.meta = <<>> /\ f.chunks = <<>>
    THEN [ok |-> FALSE, error |-> "No retrieval corpus found"]
    ELSE IF f.index >= 0 /\ f.meta # <<>> /\ Len(f.meta) # f.index
    THEN [ok |-> FALSE, error |-> "Meta rows != FAISS vectors"]
    ELSE LET docs == IF f.chunks # <<>> THEN Bm25ChunkRows(f.chunks)
                     ELSE Bm25MetaRows(f.meta)
         IN  [ok |-> TRUE,
              default_min_score |-> f.min_score,
              meta_rows |-> f.meta,
              chunk_rows |-> f.chunks,
              client |-> f.openai_api_key,
              index |-> (f.index >= 0 /\ f.meta # <<>>),
              bm25_ids |-> [i \in 1..Len(docs) |-> docs[i].id],
              bm25_payloads |-> [i \in 1..Len(docs) |-> docs[i].payload],
              bm25_tokens |-> [i \in 1..Len(docs) |-> docs[i].tokens],
              bm25 |-> (docs # <<>>)]

\* self.chunk_by_id.get / self.meta_by_id.get (retrieve.py:91-96): of the rows
\* with one id the last one is kept.
LastIndex(flags) ==
    IF \E i \in 1..Len(flags) : flags[i]
    THEN CHOOSE i \in 1..Len(flags) :
           flags[i] /\ \A j \in (i + 1)..Len(flags) : ~flags[j]
    ELSE 0

\* A plausible slip: the dense meta row is looked up before the chunk record.
_payload_for_chunk_id_meta_first(r, chunk_id) ==
    LET c == LastIndex([i \in 1..Len(r.chunk_rows) |->
                          strip_id(r.chunk_rows[i].chunk_id) = chunk_id])
        m == LastIndex([i \in 1..Len(r.meta_rows) |->
                          strip_id(r.meta_rows[i].id) = chunk_id])
    IN  IF m > 0 THEN _payload_from_meta_row(r.meta_rows[m])
        ELSE IF c > 0 THEN _payload_from_chunk_row(r.chunk_rows[c])
        ELSE [id |-> chunk_id, metadata |-> EmptyMetadata, text |-> <<>>]

\* Retriever._payload_for_chunk_id (retrieve.py:167-176).
_payload_for_chunk_id(r, chunk_id) ==
    LET c == LastIndex([i \in 1..Len(r.chunk_rows) |->
                          strip_id(r.chunk_rows[i].chunk_id) = chunk_id])
        m == LastIndex([i \in 1..Len(r.meta_rows) |->
                          strip_id(r.meta_rows[i].id) = chunk_id])
    IN  IF c > 0 THEN _payload_from_chunk_row(r.chunk_rows[c])
        ELSE IF m > 0 THEN _payload_from_meta_row(r.meta_rows[m])
        ELSE [id |-> chunk_id, metadata |-> EmptyMetadata, text |-> <<>>]

---------------------------------------------------------------------------
(* Candidate retrieval (retrieve.py:178-223) *)

\* A plausible slip: the candidates are concatenated, not merged by key.
DictPutAppend(d, e) == Append(d, e)

\* out[key] = entry on a python dict: a new key is appended, a known key keeps
\* its place and takes the new value.
DictPut(d, e) ==
    IF \E i \in 1..Len(d) : d[i].id = e.id
    THEN [i \in 1..Len(d) |-> IF d[i].id = e.id THEN e ELSE d[i]]
    ELSE Append(d, e)

HasKey(d, id) == \E i \in 1..Len(d) : d[i].id = id
Get(d, id) == d[CHOOSE i \in 1..Len(d) : d[i].id = id]

\* The loop of _retrieve_dense over the search result (retrieve.py:185-202);
\* found is what index.search returned: <<score, row_id>> pairs by rank, row_id
\* counted from 0 and -1 where the index had fewer vectors than asked for.
RECURSIVE DenseLoop(_, _, _, _, _)
DenseLoop(r, found, rank, min_score, acc) ==
    IF rank > Len(found) THEN acc
    ELSE LET s == found[rank][1]
             row_id == found[rank][2]
             chunk_id == strip_id(r.meta_rows[row_id + 1].id)
         IN  IF row_id < 0 \/ s < min_score
             THEN DenseLoop(r, found, rank + 1, min_score, acc)
             ELSE IF chunk_id = ""
             THEN DenseLoop(r, found, rank + 1, min_score, acc)
             ELSE DenseLoop(r, found, rank + 1, min_score,
                    DictPut(acc, [id |-> chunk_id, dense_score |-> s,
                                  dense_rank |-> rank,
                                  payload |-> _payload_for_chunk_id(r, chunk_id),
                                  row |-> row_id]))

\* A plausible slip: the embedding and search failures are swallowed.
_retrieve_dense_caught(r, ext, min_score) ==
    IF ~r.index \/ ~r.client THEN [raised |-> FALSE, hits |-> <<>>]
    ELSE IF ext.embed # "ok" \/ ext.search # "ok"
    THEN [raised |-> FALSE, hits |-> <<>>]
    ELSE [raised |-> FALSE,
          hits |-> DenseLoop(r, ext.found, 1, min_score, <<>>)]

\* A plausible slip: the dense search runs although no client was built.
_retrieve_dense_no_client_check(r, ext, min_score) ==
    IF ~r.index THEN [raised |-> FALSE, hits |-> <<>>]
    ELSE IF ext.embed # "ok" \/ ext.search # "ok"
    THEN [raised |-> TRUE, hits |-> <<>>]
    ELSE [raised |-> FALSE,
          hits |-> DenseLoop(r, ext.found, 1, min_score, <<>>)]

\* Retriever._retrieve_dense (retrieve.py:178-202).  ext holds what the
\* embedding service and the index answer for this call: the call of
\* _embed_query (retrieve.py:160-165) or of index.search may raise, and nothing
\* here catches it.
_retrieve_dense(r, ext, min_score) ==
    IF ~r.index \/ ~r.client THEN [raised |-> FALSE, hits |-> <<>>]
    ELSE IF ext.embed # "ok" \/ ext.search # "ok"
    THEN [raised |-> TRUE, hits |-> <<>>]
    ELSE [raised |-> FALSE,
          hits |-> DenseLoop(r, ext.found, 1, min_score, <<>>)]

\* BM25Okapi (rank_bm25) as built at retrieve.py:134 and asked at
\* retrieve.py:212.  The score of a document is the sum over the query tokens
\* it holds of idf(token) times a positive factor that grows with the token's
\* frequency in the document and shrinks with the document's length (ext.tf).
\* With N documents and a token in df of them the idf is
\* log(N - df + 0.5) - log(df + 0.5): positive when df < N/2 (ext.rare), zero
\* when df = N/2, and when negative replaced by epsilon times the average idf of
\* the vocabulary (ext.eps), which is itself negative when no token is rare.
DocFreq(r, token) ==
    Cardinality({ i \in 1..Len(r.bm25_tokens) : token \in SeqSet(r.bm25_tokens[i]) })

Vocabulary(r) ==
    UNION { SeqSet(r.bm25_tokens[i]) : i \in 1..Len(r.bm25_tokens) }

Idf(r, token, ext) ==
    LET df == DocFreq(r, token)
        n == Len(r.bm25_tokens)
    IN  IF df = 0 THEN 0
        ELSE IF 2 * df < n THEN ext.rare
        ELSE IF 2 * df = n THEN 0
        ELSE ext.eps

RECURSIVE Bm25Score(_, _, _, _, _)
Bm25Score(r, query_tokens, doc_tokens, ext, tf) ==
    IF query_tokens = <<>> THEN 0
    ELSE (IF Head(query_tokens) \in SeqSet(doc_tokens)
          THEN Idf(r, Head(query_tokens), ext) * tf ELSE 0)
         + Bm25Score(r, Tail(query_tokens), doc_tokens, ext, tf)

get_scores(r, query_tokens, ext) ==
    [i \in 1..Len(r.bm25_tokens) |->
        Bm25Score(r, query_tokens, r.bm25_tokens[i], ext, ext.tf[i])]

\* sorted(enumerate(scores), key=score, reverse=True): stable, so documents
\* with equal scores keep their index order.  The result lists the indices.
RECURSIVE InsertDesc(_, _, _)
InsertDesc(sorted, i, scores) ==
    IF sorted = <<>> THEN <<i>>
    ELSE IF scores[Head(sorted)] >= scores[i]
         THEN <<Head(sorted)>> \o InsertDesc(Tail(sorted), i, scores)
         ELSE <<i>> \o sorted

RECURSIVE SortedDesc(_, _)
SortedDesc(n, scores) ==
    IF n = 0 THEN <<>> ELSE InsertDesc(SortedDesc(n - 1, scores), n, scores)

RECURSIVE Bm25Loop(_, _, _, _, _)
Bm25Loop(r, ranked, scores, rank, acc) ==
    IF rank > Len(ranked) THEN acc
    ELSE LET row == ranked[rank]
         IN  Bm25Loop(r, ranked, scores, rank + 1,
               DictPut(acc, [id |-> r.bm25_ids[row], bm25_score |-> scores[row],
                             bm25_rank |-> rank,
                             payload |-> r.bm25_payloads[row],
                             row |-> row - 1]))

\* A plausible slip: the rows that score nothing are not taken as candidates.
_retrieve_bm25_positive_only(r, query, top_k, ext) ==
    IF ~r.bm25 THEN <<>>
    ELSE LET query_tokens == _tokenize(query)
         IN  IF query_tokens = <<>> THEN <<>>
             ELSE LET scores == get_scores(r, query_tokens, ext)
                      all == SortedDesc(Len(scores), scores)
                      ranked == SubSeq(all, 1, Min2(top_k, Len(all)))
                  IN  Bm25Loop(r, SelectSeq(ranked, LAMBDA i : scores[i] > 0),
                               scores, 1, <<>>)

\* A plausible slip: the query tokens are not checked before scoring.
_retrieve_bm25_no_token_check(r, query, top_k, ext) ==
    IF ~r.bm25 THEN <<>>
    ELSE LET scores == get_scores(r, _tokenize(query), ext)
             all == SortedDesc(Len(scores), scores)
             ranked == SubSeq(all, 1, Min2(top_k, Len(all)))
         IN  Bm25Loop(r, ranked, scores, 1, <<>>)

\* Retriever._retrieve_bm25 (retrieve.py:204-223).
_retrieve_bm25(r, query, top_k, ext) ==
    IF ~r.bm25 THEN <<>>
    ELSE LET query_tokens == _tokenize(query)
         IN  IF query_tokens = <<>> THEN <<>>
             ELSE LET scores == get_scores(r, query_tokens, ext)
                      all == SortedDesc(Len(scores), scores)
                      ranked == SubSeq(all, 1, Min2(top_k, Len(all)))
                  IN  Bm25Loop(r, ranked, scores, 1, <<>>)

---------------------------------------------------------------------------
(* Retriever._fuse_and_rerank (retrieve.py:235-289) *)

\* merged.setdefault(chunk_id, {}).update(fields), dense first, then bm25: a
\* chunk of both families keeps its dense place and takes the payload and row
\* of the bm25 entry.
RECURSIVE MergeDense(_, _)
MergeDense(dense_hits, acc) ==
    IF dense_hits = <<>> THEN acc
    ELSE LET e == Head(dense_hits)
         IN  MergeDense(Tail(dense_hits),
               DictPut(acc, [id |-> e.id, has_dense |-> TRUE,
                             dense_score |-> e.dense_score,
                             dense_rank |-> e.dense_rank,
                             has_bm25 |-> FALSE, bm25_score |-> 0, bm25_rank |-> 0,
                             payload |-> e.payload, row |-> e.row]))

RECURSIVE MergeBm25(_, _)
MergeBm25(bm25_hits, acc) ==
    IF bm25_hits = <<>> THEN acc
    ELSE LET e == Head(bm25_hits)
             old == IF HasKey(acc, e.id) THEN Get(acc, e.id)
                    ELSE [id |-> e.id, has_dense |-> FALSE, dense_score |-> 0,
                          dense_rank |-> 0]
         IN  MergeBm25(Tail(bm25_hits),
               DictPut(acc, [id |-> e.id, has_dense |-> old.has_dense,
                             dense_score |-> old.dense_score,
                             dense_rank |-> old.dense_rank,
                             has_bm25 |-> TRUE, bm25_score |-> e.bm25_score,
                             bm25_rank |-> e.bm25_rank,
                             payload |-> e.payload, row |-> e.row]))

\* max(... , default=0.0) or 1.0 over the merged candidates; a candidate
\* without the field counts as 0.0.
RECURSIVE MaxOf(_)
MaxOf(values) ==
    IF Len(values) = 1 THEN values[1]
    ELSE Max2(values[1], MaxOf(Tail(values)))

MaxOr1(values) ==
    LET m == MaxOf(values) IN IF m = 0 THEN Scale ELSE m

\* A plausible slip: the weighted sum is clamped to [0, 1] before it is stored.
FinalScoreClamped(rrf_score, dense_norm, bm25_norm, coverage) ==
    LET x == (35 * rrf_score + 30 * dense_norm + 20 * bm25_norm + 15 * coverage)
               \div 100
    IN  Max2(0, Min2(Scale, x))

\* final_score (retrieve.py:273).
FinalScore(rrf_score, dense_norm, bm25_norm, coverage) ==
    (35 * rrf_score + 30 * dense_norm + 20 * bm25_norm + 15 * coverage) \div 100

\* The Hit of one merged candidate (retrieve.py:256-286).
ScoredHit(feats, max_dense, max_bm25, query_tokens) ==
    LET coverage == _coverage(query_tokens, _tokenize(feats.payload.text))
        rrf_score == (IF feats.has_dense THEN _rrf(feats.dense_rank) ELSE 0)
                     + (IF feats.has_bm25 THEN _rrf(feats.bm25_rank) ELSE 0)
        dense_norm == Div(feats.dense_score * Scale, max_dense)
        bm25_norm == Div(feats.bm25_score * Scale, max_bm25)
    IN  Hit(FinalScore(rrf_score, dense_norm, bm25_norm, coverage),
            feats.row, feats.id, feats.payload.metadata, feats.payload.text,
            feats.dense_score, feats.bm25_score, coverage)

\* A plausible slip: the slice stops one short, scored[:top_k - 1].
_fuse_and_rerank_short_slice(query, dense_hits, bm25_hits, top_k) ==
    LET merged == MergeBm25(bm25_hits, MergeDense(dense_hits, <<>>))
    IN  IF merged = <<>> THEN <<>>
        ELSE
        LET max_dense == MaxOr1([i \in 1..Len(merged) |-> merged[i].dense_score])
            max_bm25 == MaxOr1([i \in 1..Len(merged) |-> merged[i].bm25_score])
            query_tokens == _tokenize(query)
            scored == [i \in 1..Len(merged) |->
                         ScoredHit(merged[i], max_dense, max_bm25, query_tokens)]
            order == SortedDesc(Len(scored), [i \in 1..Len(scored) |-> scored[i].score])
            sorted == [i \in 1..Len(order) |-> scored[order[i]]]
        IN  SubSeq(sorted, 1, Min2(top_k - 1, Len(sorted)))

_fuse_and_rerank(query, dense_hits, bm25_hits, top_k) ==
    LET merged == MergeBm25(bm25_hits, MergeDense(dense_hits, <<>>))
    IN  IF merged = <<>> THEN <<>>
        ELSE
        LET max_dense == MaxOr1([i \in 1..Len(merged) |-> merged[i].dense_score])
            max_bm25 == MaxOr1([i \in 1..Len(merged) |-> merged[i].bm25_score])
            query_tokens == _tokenize(query)
            scored == [i \in 1..Len(merged) |->
                         ScoredHit(merged[i], max_dense, max_bm25, query_tokens)]
            order == SortedDesc(Len(scored), [i \in 1..Len(scored) |-> scored[i].score])
            sorted == [i \in 1..Len(order) |-> scored[order[i]]]
        IN  SubSeq(sorted, 1, Min2(top_k, Len(sorted)))

---------------------------------------------------------------------------
(* Retriever.retrieve_with_result (retrieve.py:320-343) *)

\* A plausible slip: a result with dense candidates is always called hybrid.
ModeOfDenseIsHybrid(dense, bm25) ==
    IF dense # <<>> THEN "hybrid"
    ELSE IF bm25 # <<>> THEN "bm25-only"
    ELSE "none"

\* The mode (retrieve.py:332-339).
ModeOf(dense, bm25) ==
    IF dense # <<>> /\ bm25 # <<>> THEN "hybrid"
    ELSE IF dense # <<>> THEN "dense-only"
    ELSE IF bm25 # <<>> THEN "bm25-only"
    ELSE "none"

\* The call either raises (the exception of the embedding call or of the index
\* search passes through) or returns a RetrievalResult; dense and bm25 are the
\* candidate sets it was fused from.
retrieve_with_result(r, query, top_k, min_score, candidate_pool, ext) ==
    LET threshold == min_score
        width == Max2(top_k, candidate_pool)
        d == _retrieve_dense(r, ext, threshold)
    IN  IF d.raised THEN [raised |-> TRUE]
        ELSE
        LET dense == d.hits
            bm25 == _retrieve_bm25(r, query, width, ext)
            mode == ModeOf(dense, bm25)
            hits == _fuse_and_rerank(query, dense, bm25, top_k)
            g == _confidence_gate(hits, mode, threshold)
        IN  [raised |-> FALSE, dense |-> dense, bm25 |-> bm25,
             result |-> RetrievalResult(hits, mode, g[1], g[2])]

---------------------------------------------------------------------------
(* The idle values of the variables a specification does not use *)

NoFs == [tag |-> "none"]
NoState == [started |-> FALSE]
NoCounts == [s \in {"200", "401", "500", "503"} |-> 0]
NoAttempts == [l \in Modes \X BOOLEAN |-> 0]
NoCall == [op |-> "none"]

---------------------------------------------------------------------------
(* The files a process may be started with *)

RowA == ChunkRow("c1", <<"SNAP", "food">>, "doc1", "u1", 0, 27)
RowB == ChunkRow("c2", <<"apply">>, "doc2", "u2", 0, 36)
\* a row that shares a word with RowA
RowS == ChunkRow("c2", <<"apply", "snap">>, "doc2", "u2", 0, 36)
RowZ == ChunkRow("c4", <<"zebra">>, "doc4", "u4", 0, 5)
\* a second row with the id of RowA
RowA2 == ChunkRow("c1", <<"food">>, "doc1", "u1", 27, 40)
\* a row whose text is blank
RowE == ChunkRow("c3", <<" ">>, "doc3", "u3", 0, 0)

MetaA == MetaRow("c1", <<"SNAP", "food">>, "doc1", "u1", 0, 27)
MetaB == MetaRow("c2", <<"apply">>, "doc2", "u2", 0, 36)
MetaS == MetaRow("c2", <<"apply", "snap">>, "doc2", "u2", 0, 36)
\* the meta row of the chunk whose chunk-record text is blank
Meta3 == MetaRow("c3", <<"snap", " ", "apply">>, "doc3", "u3", 0, 12)
\* a meta row with no chunk-record row
Meta9 == MetaRow("c9", <<"zebra">>, "doc9", "u9", 0, 5)

\* chunks: data/chunks/chunks.jsonl, meta: artifacts/index/meta.jsonl (<<>> for
\* a missing or empty file), index: the vector count of index.faiss (-1: no file).
Corpora ==
    { [chunks |-> <<RowA, RowB>>, meta |-> <<>>, index |-> -1],
      [chunks |-> <<RowA, RowS, RowZ>>, meta |-> <<>>, index |-> -1],
      [chunks |-> <<RowA, RowS>>, meta |-> <<MetaA, MetaS>>, index |-> 2],
      [chunks |-> <<RowA, RowB>>, meta |-> <<MetaA, MetaB>>, index |-> -1],
      [chunks |-> <<>>, meta |-> <<MetaA, MetaB>>, index |-> 2],
      [chunks |-> <<RowA, RowE>>, meta |-> <<MetaA, Meta3>>, index |-> 2],
      [chunks |-> <<RowA>>, meta |-> <<MetaA, Meta9>>, index |-> 2],
      [chunks |-> <<RowA, RowA2>>, meta |-> <<>>, index |-> -1],
      [chunks |-> <<RowE>>, meta |-> <<>>, index |-> -1],
      [chunks |-> <<RowA, RowB>>, meta |-> <<MetaA>>, index |-> 2],
      [chunks |-> <<>>, meta |-> <<>>, index |-> -1] }

MaxTopK == 2
MaxPool == 2

\* retrieval.min_score of config.yaml (settings.py:64: 0.0 <= min_score <= 1.0)
MinScores == {0, 2000}

Files ==
    { [config |-> TRUE, min_score |-> m, top_k |-> MaxTopK,
       chunks |-> c.chunks, meta |-> c.meta, index |-> c.index,
       openai_api_key |-> k] :
        c \in Corpora, k \in BOOLEAN, m \in MinScores }

Queries ==
    { <<"?">>, <<"zebra">>, <<"SNAP", "?">>, <<"snap", " ", "apply">> }

---------------------------------------------------------------------------
(* What the embedding service, the index and the BM25 scorer answer *)

DenseVals == {-3000, 1000, 5000}
RareIdfVals == {5000}
EpsVals == {-2000, 1000}
TfVals == {1, 3}

\* index.search(q, width): the min(ntotal, width) nearest rows by inner
\* product, best first, then padding with row_id -1.
Found(ntotal, width, vals) ==
    LET k == Min2(ntotal, width)
        rows == { q \in [1..k -> 0..(ntotal - 1)] :
                    \A i, j \in 1..k : i # j => q[i] # q[j] }
        scores == { q \in [1..k -> vals] :
                      \A i \in 1..(k - 1) : q[i] >= q[i + 1] }
    IN  { [i \in 1..width |-> IF i <= k THEN <<sc[i], rw[i]>> ELSE <<0 - Scale, -1>>] :
            sc \in scores, rw \in rows }

DenseExts(r, width, vals) ==
    IF r.index /\ r.client
    THEN { [embed |-> "error", search |-> "ok", found |-> <<>>],
           [embed |-> "ok", search |-> "error", found |-> <<>>] }
         \cup { [embed |-> "ok", search |-> "ok", found |-> f] :
                  f \in Found(Len(r.meta_rows), width, vals) }
    ELSE { [embed |-> "ok", search |-> "ok", found |-> <<>>] }

Bm25Exts(r, query, epsvals, tfvals) ==
    LET tokens == SeqSet(_tokenize(query))
        n == Len(r.bm25_tokens)
        common == { t \in Vocabulary(r) : 2 * DocFreq(r, t) > n }
        rare == { t \in Vocabulary(r) : 2 * DocFreq(r, t) < n }
        eps == IF common = {} THEN {0}
               ELSE IF rare = {} THEN { e \in epsvals : e < 0 }
               ELSE epsvals
    IN  IF tokens = {} \/ ~r.bm25
        THEN { [rare |-> 0, eps |-> 0, tf |-> [i \in 1..n |-> 1]] }
        ELSE { [rare |-> i, eps |-> e, tf |-> t] :
                 i \in RareIdfVals, e \in eps, t \in [1..n -> tfvals] }

ExtsOf(r, query, width, vals, epsvals, tfvals) ==
    { [embed |-> d.embed, search |-> d.search, found |-> d.found,
       rare |-> b.rare, eps |-> b.eps, tf |-> b.tf] :
        d \in DenseExts(r, width, vals),
        b \in Bm25Exts(r, query, epsvals, tfvals) }

Exts(r, query, width) ==
    ExtsOf(r, query, width, DenseVals, EpsVals, TfVals)

---------------------------------------------------------------------------
(* SpecRetrieve: one retrieve_with_result call on a constructed Retriever *)

RetrieveInit ==
    /\ fs \in { f \in Files : Retriever(f).ok /\ f.min_score = 2000 }
    /\ state = NoState
    /\ REQUESTS_TOTAL = NoCounts
    /\ ANSWER_ATTEMPTS_TOTAL = NoAttempts
    /\ llm_calls = 0
    /\ inp = NoCall
    /\ out = NoCall

RetrieveWithResult ==
    /\ inp = NoCall
    /\ LET r == Retriever(fs)
       IN  \E query \in Queries, top_k \in 1..MaxTopK,
              candidate_pool \in 1..MaxPool, min_score \in MinScores :
             \E ext \in Exts(r, query, Max2(top_k, candidate_pool)) :
               /\ inp' = [op |-> "retrieve", query |-> query, top_k |-> top_k,
                          min_score |-> min_score,
                          candidate_pool |-> candidate_pool, ext |-> ext]
               /\ out' = [op |-> "retrieve"] @@
                         retrieve_with_result(r, query, top_k, min_score,
                                              candidate_pool, ext)
    /\ UNCHANGED <<fs, state, REQUESTS_TOTAL, ANSWER_ATTEMPTS_TOTAL, llm_calls>>

RetrieveNext == RetrieveWithResult

SpecRetrieve == RetrieveInit /\ [][RetrieveNext]_vars

---------------------------------------------------------------------------
(* SpecGate: _confidence_gate on drawn inputs.                             *)
(* The hits are drawn sorted by score descending, as _fuse_and_rerank      *)
(* returns them; the values straddle every threshold of the gate.          *)

MaxGateHits == 2

GateScores == {500, 4995, 5000, 5010, 9000}
GateCoverages == {0, 500, 799, 800, 999, 1000, 1199, 1200, 5000}
GateBm25 == {-2746, 0, 20000}
GateDense == {0, 299, 300, 1999, 2000, 2299, 2300}
GateMinScores == {0, 2000, Scale}

GateTopHits ==
    { Hit(s, 0, "c1", [doc_id |-> "d1"], <<>>, d, b, c) :
        s \in GateScores, d \in GateDense, b \in GateBm25, c \in GateCoverages }

\* The hits below the top one: the gate reads only their score.
GateTailHits ==
    { Hit(s, 1, "c2", [doc_id |-> "d2"], <<>>, 0, 0, 0) : s \in GateScores }

IsSortedDesc(hits) ==
    \A i \in 1..(Len(hits) - 1) : hits[i].score >= hits[i + 1].score

RECURSIVE GateTails(_)
GateTails(n) ==
    IF n = 0 THEN {<<>>}
    ELSE LET shorter == GateTails(n - 1)
         IN  shorter \cup { Append(t, h) : t \in { u \in shorter : Len(u) = n - 1 },
                                           h \in GateTailHits }

GateHitLists ==
    {<<>>} \cup
    { l \in { <<top>> \o tail : top \in GateTopHits,
                                tail \in GateTails(MaxGateHits - 1) } :
        IsSortedDesc(l) }

GateInit ==
    /\ fs = NoFs
    /\ state = NoState
    /\ REQUESTS_TOTAL = NoCounts
    /\ ANSWER_ATTEMPTS_TOTAL = NoAttempts
    /\ llm_calls = 0
    /\ \E hits \in GateHitLists, mode \in Modes, min_score \in GateMinScores :
         inp = [op |-> "gate", hits |-> hits, mode |-> mode, min_score |-> min_score]
    /\ out = NoCall

Gate ==
    /\ inp.op = "gate"
    /\ out = NoCall
    /\ LET g == _confidence_gate(inp.hits, inp.mode, inp.min_score)
       IN  out' = [op |-> "gate", should_answer |-> g[1], reason |-> g[2]]
    /\ UNCHANGED <<fs, state, REQUESTS_TOTAL, ANSWER_ATTEMPTS_TOTAL, llm_calls, inp>>

GateNext == Gate

SpecGate == GateInit /\ [][GateNext]_vars

---------------------------------------------------------------------------
(* Properties of the confidence gate, checked under SpecGate *)

GateDone == inp.op = "gate" /\ out.op = "gate"
GateTop == inp.hits[1]
GateAnswer == <<out.should_answer, out.reason>>

\* C4 (as claimed): the single hit {score 0.05, coverage 0.0, bm25_score 0.0},
\* with no dense score (the field's default 0.0), is refused in every mode and
\* for every min_score in [0,1].
C4_ZeroEvidenceHitRefused ==
    (GateDone
       /\ inp.hits = <<Hit(500, 0, "c1", [doc_id |-> "d1"], <<>>, 0, 0, 0)>>)
    => out.should_answer = FALSE

\* C5: in bm25-only mode with a hit, the gate answers (TRUE, "ok") exactly when
\* the top hit has coverage >= 0.12 or bm25_score > 0, and
\* (FALSE, "low_lexical_support") otherwise, whatever min_score is.
C5_Bm25OnlyGate ==
    (GateDone /\ inp.mode = "bm25-only" /\ inp.hits # <<>>)
    => GateAnswer =
         IF GateTop.coverage >= 1200 \/ GateTop.bm25_score > 0
         THEN <<TRUE, "ok">> ELSE <<FALSE, "low_lexical_support">>

\* C5's case: a lexical hit is accepted although its fused score and its dense
\* score are below min_score.
C5_Witness ==
    /\ GateDone /\ inp.mode = "bm25-only" /\ inp.hits # <<>>
    /\ inp.min_score = Scale /\ GateTop.score < inp.min_score
    /\ GateTop.dense_score < inp.min_score
    /\ GateTop.coverage < 1200 /\ GateTop.bm25_score > 0
    /\ GateAnswer = <<TRUE, "ok">>

\* C6: in dense-only mode with a hit, the gate answers (TRUE, "ok") exactly when
\* the top hit has dense_score >= min_score or coverage >= 0.08, and
\* (FALSE, "low_dense_support") otherwise.
C6_DenseOnlyGate ==
    (GateDone /\ inp.mode = "dense-only" /\ inp.hits # <<>>)
    => GateAnswer =
         IF GateTop.dense_score >= inp.min_score \/ GateTop.coverage >= 800
         THEN <<TRUE, "ok">> ELSE <<FALSE, "low_dense_support">>

\* C6's case: a dense hit below the floor is accepted on coverage 0.08 alone.
C6_Witness ==
    /\ GateDone /\ inp.mode = "dense-only" /\ inp.hits # <<>>
    /\ GateTop.dense_score < inp.min_score /\ GateTop.coverage = 800
    /\ GateAnswer = <<TRUE, "ok">>

\* C7 (as claimed): in hybrid mode with a hit, the gate answers
\* (FALSE, "low_hybrid_support") exactly when the top hit has neither lexical
\* support (coverage >= 0.12 or bm25_score > 0) nor dense support under the
\* dense-only thresholds (dense_score >= min_score or coverage >= 0.08).
C7_HybridSupportAsClaimed ==
    (GateDone /\ inp.mode = "hybrid" /\ inp.hits # <<>>)
    => (GateAnswer = <<FALSE, "low_hybrid_support">>
        <=> (/\ ~(GateTop.coverage >= 1200 \/ GateTop.bm25_score > 0)
             /\ ~(GateTop.dense_score >= inp.min_score \/ GateTop.coverage >= 800)))

\* C7 (amended): in hybrid mode with a hit, the gate answers
\* (FALSE, "low_hybrid_support") exactly when the top hit has neither lexical
\* support (coverage >= 0.12 or bm25_score > 0) nor dense_score >= min_score;
\* coverage >= 0.08 does not count as dense support in hybrid mode.
C7_HybridSupport ==
    (GateDone /\ inp.mode = "hybrid" /\ inp.hits # <<>>)
    => (GateAnswer = <<FALSE, "low_hybrid_support">>
        <=> (/\ ~(GateTop.coverage >= 1200 \/ GateTop.bm25_score > 0)
             /\ ~(GateTop.dense_score >= inp.min_score)))

\* C7's case: coverage in [0.08, 0.12), no bm25 score, dense score under the
\* floor: refused in hybrid mode.
C7_Witness ==
    /\ GateDone /\ inp.mode = "hybrid" /\ inp.hits # <<>>
    /\ GateTop.coverage >= 800 /\ GateTop.coverage < 1200
    /\ GateTop.bm25_score <= 0 /\ GateTop.dense_score < inp.min_score
    /\ GateAnswer = <<FALSE, "low_hybrid_support">>

\* C8: in hybrid mode with two or more hits whose top hit passes the support
\* check (coverage >= 0.12 or bm25_score > 0 or dense_score >= min_score), the
\* gate answers (FALSE, "ambiguous_top_hit") exactly when top score - second
\* score < 0.001 and top coverage < 0.10 and top dense_score < min_score + 0.03,
\* and (TRUE, "ok") otherwise.
C8_AmbiguousTopHit ==
    (GateDone /\ inp.mode = "hybrid" /\ Len(inp.hits) >= 2
       /\ (GateTop.coverage >= 1200 \/ GateTop.bm25_score > 0
             \/ GateTop.dense_score >= inp.min_score))
    => GateAnswer =
         IF /\ inp.hits[1].score - inp.hits[2].score < 10
            /\ GateTop.coverage < 1000
            /\ GateTop.dense_score < inp.min_score + 300
         THEN <<FALSE, "ambiguous_top_hit">> ELSE <<TRUE, "ok">>

\* C8's case: a supported top hit that leads by exactly 0.001 is answered, and
\* the state is one where only the margin keeps it from being ambiguous.
C8_Witness ==
    /\ GateDone /\ inp.mode = "hybrid" /\ Len(inp.hits) >= 2
    /\ GateTop.bm25_score > 0
    /\ inp.hits[1].score - inp.hits[2].score = 10
    /\ GateTop.coverage < 1000
    /\ GateTop.dense_score < inp.min_score + 300
    /\ GateAnswer = <<TRUE, "ok">>

\* C9 (as claimed): in hybrid mode, two hits with scores 0.500 and 0.4995, top
\* coverage 0.05 and top dense score below min_score + 0.03 give reason
\* "ambiguous_top_hit", for any bm25_score of the top hit and any min_score.
C9_AmbiguousExampleAsClaimed ==
    (GateDone /\ inp.mode = "hybrid" /\ Len(inp.hits) = 2
       /\ inp.hits[1].score = 5000 /\ inp.hits[2].score = 4995
       /\ GateTop.coverage = 500
       /\ GateTop.dense_score < inp.min_score + 300)
    => out.reason = "ambiguous_top_hit"

\* C9 (amended): the same two hits give reason "ambiguous_top_hit" when the top
\* hit also passes the support check that is evaluated first (bm25_score > 0 or
\* dense_score >= min_score); without it the reason is "low_hybrid_support".
C9_AmbiguousExample ==
    (GateDone /\ inp.mode = "hybrid" /\ Len(inp.hits) = 2
       /\ inp.hits[1].score = 5000 /\ inp.hits[2].score = 4995
       /\ GateTop.coverage = 500
       /\ GateTop.dense_score < inp.min_score + 300)
    => out.reason =
         IF GateTop.bm25_score > 0 \/ GateTop.dense_score >= inp.min_score
         THEN "ambiguous_top_hit" ELSE "low_hybrid_support"

\* C9's case: the example with dense support only (no bm25 score).
C9_Witness ==
    /\ GateDone /\ inp.mode = "hybrid" /\ Len(inp.hits) = 2
    /\ inp.hits[1].score = 5000 /\ inp.hits[2].score = 4995
    /\ GateTop.coverage = 500 /\ GateTop.bm25_score = 0
    /\ GateTop.dense_score >= inp.min_score
    /\ GateTop.dense_score < inp.min_score + 300
    /\ out.reason = "ambiguous_top_hit"

---------------------------------------------------------------------------
(* Properties of retrieve_with_result, checked under SpecRetrieve *)

Retrieved == inp.op = "retrieve" /\ out.op = "retrieve"
Returned == Retrieved /\ ~out.raised
DenseConfigured == fs.index >= 0 /\ fs.meta # <<>> /\ fs.openai_api_key

\* C2 (as claimed): when the query-embedding call or the dense index search
\* fails during retrieve_with_result, the call does not raise; it returns a
\* RetrievalResult whose mode is bm25-only, or none when lexical retrieval
\* yields no candidate either.
C2_DenseFailureDegrades ==
    (Retrieved /\ DenseConfigured
       /\ (inp.ext.embed = "error" \/ inp.ext.search = "error"))
    => (/\ ~out.raised
        /\ out.result.mode = IF out.bm25 # <<>> THEN "bm25-only" ELSE "none")

\* C3 (as claimed): every Hit returned by _fuse_and_rerank has a fused score of
\* at least 0.0 and at most 1.0.
C3_FusedScoreInUnitInterval ==
    Returned =>
      \A i \in 1..Len(out.result.hits) :
         out.result.hits[i].score >= 0 /\ out.result.hits[i].score <= Scale

\* C10: the mode is hybrid exactly when both families returned a candidate,
\* dense-only when only dense did, bm25-only when only lexical did and none when
\* neither did; without a dense index or without an embedding client there is
\* no dense candidate and the mode is bm25-only or none.
C10_ModeNamesTheFamilies ==
    Returned =>
      /\ out.result.mode \in Modes
      /\ (out.result.mode = "hybrid") <=> (out.dense # <<>> /\ out.bm25 # <<>>)
      /\ (out.result.mode = "dense-only") <=> (out.dense # <<>> /\ out.bm25 = <<>>)
      /\ (out.result.mode = "bm25-only") <=> (out.dense = <<>> /\ out.bm25 # <<>>)
      /\ (out.result.mode = "none") <=> (out.dense = <<>> /\ out.bm25 = <<>>)
      /\ ~DenseConfigured
           => (out.dense = <<>> /\ out.result.mode \in {"bm25-only", "none"})

\* C10's case: the index file and its meta rows are there but no embedding
\* client was built, and a query with lexical candidates is answered bm25-only.
C10_Witness ==
    /\ Returned
    /\ fs.index >= 0 /\ fs.meta # <<>> /\ ~fs.openai_api_key
    /\ out.result.hits # <<>>
    /\ out.result.mode = "bm25-only"

---------------------------------------------------------------------------
(* Spec: the API process (src/src/api/main.py) and the command-line       *)
(* rag_answer (src/src/rag/rag_answer.py) over one set of files           *)

FixedAnswer == "I don't have enough information in the provided documents."
GenerationDisabled == "(generation disabled)"

\* retrieve.py:326  candidate_pool: int = 25
DefaultCandidatePool == 25

MaxRequests == 2

\* The environment of the API process: API_KEY ("" when unset) and
\* RAG_DISABLE_GENERATION (main.py:43-45), next to the files.
ServiceCorpora ==
    { [chunks |-> <<RowA, RowB>>, meta |-> <<>>, index |-> -1],
      [chunks |-> <<RowA, RowS>>, meta |-> <<MetaA, MetaS>>, index |-> 2],
      [chunks |-> <<RowA, RowB>>, meta |-> <<MetaA>>, index |-> 2],
      [chunks |-> <<>>, meta |-> <<>>, index |-> -1] }

ServiceFile(cf, c, k, d) ==
    [config |-> cf, min_score |-> 2000, top_k |-> MaxTopK,
     chunks |-> c.chunks, meta |-> c.meta, index |-> c.index,
     openai_api_key |-> c.index >= 0,
     api_key |-> k, disable_generation |-> d]

\* config.yaml is missing in some of the environments without an API key.
ServiceFiles ==
    { ServiceFile(TRUE, c, k, d) :
        c \in ServiceCorpora, k \in {"", "secret"}, d \in BOOLEAN }
    \cup { ServiceFile(FALSE, c, "", FALSE) : c \in ServiceCorpora }

\* X-API-Key of a request ("" when the header is absent)
HeaderKeys == {"", "secret"}

\* AnswerRequest.top_k (models.py:10): None (written 0) or an integer > 0
RequestTopK == {0, 1}

\* The answers of the embedding service, the index and the scorer the API
\* process is run against: a part of Exts.
ServiceDenseVals == {5000}
ServiceEpsVals == {-2000}
ServiceTfVals == {1}

ServiceExts(r, query) ==
    ExtsOf(r, query, DefaultCandidatePool, ServiceDenseVals, ServiceEpsVals,
           ServiceTfVals)

\* The questions put to the API process: a part of Queries.
ServiceQueries == { <<"zebra">>, <<"SNAP", "?">> }

None == [ok |-> FALSE]

\* AppConfig.load (settings.py); of the config retrieval.top_k and
\* retrieval.min_score are kept.
AppConfigLoad(f) ==
    IF f.config THEN [ok |-> TRUE, top_k |-> f.top_k, min_score |-> f.min_score]
    ELSE [ok |-> FALSE, error |-> "FileNotFoundError"]

\* A plausible slip: a Retriever that cannot be built with the dense index is
\* built without it, and the startup is taken as successful.
StartupFallsBackToLexical ==
    /\ ~state.started
    /\ LET settings == [api_key |-> fs.api_key,
                        disable_generation |-> fs.disable_generation]
           cfg == AppConfigLoad(fs)
           first == Retriever(fs)
           retriever == IF first.ok THEN first
                        ELSE Retriever([fs EXCEPT !.index = -1])
       IN  state' =
             IF ~cfg.ok
             THEN [started |-> TRUE, settings |-> settings,
                   startup_error |-> cfg.error, cfg |-> None, retriever |-> None]
             ELSE IF ~retriever.ok
             THEN [started |-> TRUE, settings |-> settings,
                   startup_error |-> retriever.error, cfg |-> None,
                   retriever |-> None]
             ELSE [started |-> TRUE, settings |-> settings,
                   startup_error |-> "", cfg |-> cfg, retriever |-> retriever]
    /\ inp' = [op |-> "startup"]
    /\ out' = [op |-> "startup"]
    /\ UNCHANGED <<fs, REQUESTS_TOTAL, ANSWER_ATTEMPTS_TOTAL, llm_calls>>

\* create_app._startup (main.py:101-119)
Startup ==
    /\ ~state.started
    /\ LET settings == [api_key |-> fs.api_key,
                        disable_generation |-> fs.disable_generation]
           cfg == AppConfigLoad(fs)
           retriever == Retriever(fs)
       IN  state' =
             IF ~cfg.ok
             THEN [started |-> TRUE, settings |-> settings,
                   startup_error |-> cfg.error, cfg |-> None, retriever |-> None]
             ELSE IF ~retriever.ok
             THEN [started |-> TRUE, settings |-> settings,
                   startup_error |-> retriever.error, cfg |-> None,
                   retriever |-> None]
             ELSE [started |-> TRUE, settings |-> settings,
                   startup_error |-> "", cfg |-> cfg, retriever |-> retriever]
    /\ inp' = [op |-> "startup"]
    /\ out' = [op |-> "startup"]
    /\ UNCHANGED <<fs, REQUESTS_TOTAL, ANSWER_ATTEMPTS_TOTAL, llm_calls>>

\* A plausible slip: the liveness probe reports the startup error, as the
\* readiness probe does.
HealthzChecksStartup ==
    /\ state.started
    /\ inp' = [op |-> "healthz"]
    /\ out' = IF state.startup_error # ""
              THEN [op |-> "healthz", status |-> 503,
                    body |-> [status |-> "error"]]
              ELSE [op |-> "healthz", status |-> 200, body |-> [status |-> "ok"]]
    /\ UNCHANGED <<fs, state, REQUESTS_TOTAL, ANSWER_ATTEMPTS_TOTAL, llm_calls>>

\* create_app.healthz (main.py:121-123)
Healthz ==
    /\ state.started
    /\ inp' = [op |-> "healthz"]
    /\ out' = [op |-> "healthz", status |-> 200, body |-> [status |-> "ok"]]
    /\ UNCHANGED <<fs, state, REQUESTS_TOTAL, ANSWER_ATTEMPTS_TOTAL, llm_calls>>

Inc(counter, label) == [counter EXCEPT ![label] = @ + 1]

Served == REQUESTS_TOTAL["200"] + REQUESTS_TOTAL["401"]
          + REQUESTS_TOTAL["500"] + REQUESTS_TOTAL["503"]

\* A plausible slip: enumerate without start=1 numbers the citations from 0.
CitationsNumberedFromZero(retrieval) ==
    [i \in 1..Len(retrieval.hits) |->
       LET hit == retrieval.hits[i]
       IN  [cite |-> i - 1, score |-> hit.score, chunk_id |-> hit.id,
            doc_id |-> hit.metadata.doc_id, url |-> hit.metadata.url,
            start_char |-> hit.metadata.start_char,
            end_char |-> hit.metadata.end_char,
            retrieval_mode |-> retrieval.mode,
            dense_score |-> hit.dense_score, bm25_score |-> hit.bm25_score,
            coverage |-> hit.coverage]]

\* main.py:224-242: the citations of the hits, numbered from 1
Citations(retrieval) ==
    [i \in 1..Len(retrieval.hits) |->
       LET hit == retrieval.hits[i]
       IN  [cite |-> i, score |-> hit.score, chunk_id |-> hit.id,
            doc_id |-> hit.metadata.doc_id, url |-> hit.metadata.url,
            start_char |-> hit.metadata.start_char,
            end_char |-> hit.metadata.end_char,
            retrieval_mode |-> retrieval.mode,
            dense_score |-> hit.dense_score, bm25_score |-> hit.bm25_score,
            coverage |-> hit.coverage]]

RetrievalInfo(retrieval, top_k) ==
    [mode |-> retrieval.mode, should_answer |-> retrieval.should_answer,
     reason |-> retrieval.reason, top_k |-> top_k]

\* A plausible slip: the guard of generation looks at the hits only.
AnswerInsufficientHitsOnly(retrieval) ==
    retrieval.hits = <<>>

\* main.py:203  if not retrieval.hits or not retrieval.should_answer
AnswerInsufficient(retrieval) ==
    retrieval.hits = <<>> \/ ~retrieval.should_answer

\* What a POST /answer is answered with.  Next to the response, result is
\* the RetrievalResult the handler worked from (None when it left before the
\* retrieval call returned) and generation tells whether ollama_generate was
\* called.
Response(status, answer, citations, retrieval, result, generation) ==
    [op |-> "answer", status |-> status, answer |-> answer,
     citations |-> citations, retrieval |-> retrieval, result |-> result,
     generation |-> generation]

\* create_app.answer from the ANSWER_ATTEMPTS_TOTAL update on
\* (main.py:198-281): what the handler does with the RetrievalResult.
AnswerFrom(settings, req, top_k, retrieval) ==
    /\ ANSWER_ATTEMPTS_TOTAL' =
         Inc(ANSWER_ATTEMPTS_TOTAL, <<retrieval.mode, retrieval.should_answer>>)
    /\ IF AnswerInsufficient(retrieval)
       THEN /\ REQUESTS_TOTAL' = Inc(REQUESTS_TOTAL, "200")
            /\ inp' = req
            /\ out' = Response(200, FixedAnswer, <<>>,
                               RetrievalInfo(retrieval, top_k), retrieval, FALSE)
            /\ UNCHANGED llm_calls
       ELSE IF settings.disable_generation
       THEN /\ REQUESTS_TOTAL' = Inc(REQUESTS_TOTAL, "200")
            /\ inp' = req
            /\ out' = Response(200, GenerationDisabled, Citations(retrieval),
                               RetrievalInfo(retrieval, top_k), retrieval, FALSE)
            /\ UNCHANGED llm_calls
       ELSE
       \E llm \in {"ok", "error"} :
         /\ llm_calls' = llm_calls + 1
         /\ inp' = req @@ [llm |-> llm]
         /\ IF llm = "error"
            THEN /\ REQUESTS_TOTAL' = Inc(REQUESTS_TOTAL, "500")
                 /\ out' = Response(500, "", <<>>,
                                    RetrievalInfo(retrieval, top_k), retrieval,
                                    TRUE)
            ELSE /\ REQUESTS_TOTAL' = Inc(REQUESTS_TOTAL, "200")
                 /\ out' = Response(200, "generated", Citations(retrieval),
                                    RetrievalInfo(retrieval, top_k), retrieval,
                                    TRUE)

\* create_app.answer at the retrieval call (main.py:191-195): an exception of
\* the call leaves the handler, and the framework answers 500.
AnswerRetrieved(settings, req, top_k, call) ==
    IF call.raised
    THEN /\ inp' = req
         /\ out' = Response(500, "", <<>>, None, None, FALSE)
         /\ UNCHANGED <<REQUESTS_TOTAL, ANSWER_ATTEMPTS_TOTAL, llm_calls>>
    ELSE AnswerFrom(settings, req, top_k, call.result)

\* A plausible slip: the API key is checked before the startup error.
AnswerKeyCheckedFirst ==
    /\ state.started
    /\ Served < MaxRequests
    /\ \E question \in ServiceQueries, req_top_k \in RequestTopK,
          x_api_key \in HeaderKeys :
         LET settings == state.settings
             req == [op |-> "answer", question |-> question,
                     top_k |-> req_top_k, x_api_key |-> x_api_key]
         IN
         IF settings.api_key # "" /\ x_api_key # settings.api_key
         THEN /\ REQUESTS_TOTAL' = Inc(REQUESTS_TOTAL, "401")
              /\ inp' = req
              /\ out' = Response(401, "", <<>>, None, None, FALSE)
              /\ UNCHANGED <<ANSWER_ATTEMPTS_TOTAL, llm_calls>>
         ELSE IF state.startup_error # ""
         THEN /\ REQUESTS_TOTAL' = Inc(REQUESTS_TOTAL, "503")
              /\ inp' = req
              /\ out' = Response(503, "", <<>>, None, None, FALSE)
              /\ UNCHANGED <<ANSWER_ATTEMPTS_TOTAL, llm_calls>>
         ELSE
         LET cfg == state.cfg
             retriever == state.retriever
             top_k == IF req_top_k # 0 THEN req_top_k ELSE cfg.top_k
         IN  \E ext \in ServiceExts(retriever, question) :
               AnswerRetrieved(settings, req @@ [ext |-> ext], top_k,
                 retrieve_with_result(retriever, question, top_k, cfg.min_score,
                                      DefaultCandidatePool, ext))
    /\ UNCHANGED <<fs, state>>

\* create_app.answer (main.py:168-281), the whole handler.
Answer ==
    /\ state.started
    /\ Served < MaxRequests
    /\ \E question \in ServiceQueries, req_top_k \in RequestTopK,
          x_api_key \in HeaderKeys :
         LET settings == state.settings
             req == [op |-> "answer", question |-> question,
                     top_k |-> req_top_k, x_api_key |-> x_api_key]
         IN
         IF state.startup_error # ""
         THEN /\ REQUESTS_TOTAL' = Inc(REQUESTS_TOTAL, "503")
              /\ inp' = req
              /\ out' = Response(503, "", <<>>, None, None, FALSE)
              /\ UNCHANGED <<ANSWER_ATTEMPTS_TOTAL, llm_calls>>
         ELSE IF settings.api_key # "" /\ x_api_key # settings.api_key
         THEN /\ REQUESTS_TOTAL' = Inc(REQUESTS_TOTAL, "401")
              /\ inp' = req
              /\ out' = Response(401, "", <<>>, None, None, FALSE)
              /\ UNCHANGED <<ANSWER_ATTEMPTS_TOTAL, llm_calls>>
         ELSE
         LET cfg == state.cfg
             retriever == state.retriever
             top_k == IF req_top_k # 0 THEN req_top_k ELSE cfg.top_k
         IN  \E ext \in ServiceExts(retriever, question) :
               AnswerRetrieved(settings, req @@ [ext |-> ext], top_k,
                 retrieve_with_result(retriever, question, top_k, cfg.min_score,
                                      DefaultCandidatePool, ext))
    /\ UNCHANGED <<fs, state>>

\* A plausible slip: the guard of generation looks at the hits only.
RagInsufficientHitsOnly(retrieval) ==
    retrieval.hits = <<>>

\* rag_answer.py:89  if not hits or not retrieval.should_answer
RagInsufficient(retrieval) ==
    retrieval.hits = <<>> \/ ~retrieval.should_answer

\* rag_answer.py:105-118
RagCitations(hits) ==
    [i \in 1..Len(hits) |->
       [cite |-> i, score |-> hits[i].score, chunk_id |-> hits[i].id,
        doc_id |-> hits[i].metadata.doc_id, url |-> hits[i].metadata.url,
        start_char |-> hits[i].metadata.start_char,
        end_char |-> hits[i].metadata.end_char]]

RAGResult(answer, citations, contexts) ==
    [answer |-> answer, citations |-> citations, contexts |-> contexts]

\* What a rag_answer call ends with: a RAGResult or an exception.  result is
\* the RetrievalResult it worked from (None when it left before the retrieval
\* call returned), generation tells whether call_ollama was called.
RagReturn(value, result, generation) ==
    [op |-> "rag_answer", raised |-> FALSE, value |-> value,
     result |-> result, generation |-> generation]

RagRaise(result, generation) ==
    [op |-> "rag_answer", raised |-> TRUE, result |-> result,
     generation |-> generation]

\* rag_answer from line 87 on (rag_answer.py:87-120), called with
\* llm_provider "ollama": what it does with the RetrievalResult.
RagAnswerFrom(req, retrieval) ==
    IF RagInsufficient(retrieval)
    THEN /\ inp' = req
         /\ out' = RagReturn(RAGResult(FixedAnswer, <<>>, <<>>), retrieval, FALSE)
         /\ UNCHANGED llm_calls
    ELSE
    \E llm \in {"ok", "error"} :
      /\ llm_calls' = llm_calls + 1
      /\ inp' = req @@ [llm |-> llm]
      /\ out' = IF llm = "error"
                THEN RagRaise(retrieval, TRUE)
                ELSE RagReturn(RAGResult("generated",
                                         RagCitations(retrieval.hits),
                                         retrieval.hits),
                               retrieval, TRUE)

\* rag_answer at the retrieval call (rag_answer.py:82-86)
RagRetrieved(req, call) ==
    IF call.raised
    THEN /\ inp' = req
         /\ out' = RagRaise(None, FALSE)
         /\ UNCHANGED llm_calls
    ELSE RagAnswerFrom(req, call.result)

\* rag_answer (rag_answer.py:73-120), the whole function; it loads the config
\* and builds a Retriever of its own on every call, and an exception of any
\* step leaves it.
RagAnswer ==
    /\ llm_calls < MaxRequests
    /\ \E question \in ServiceQueries, arg_top_k \in RequestTopK :
         LET req == [op |-> "rag_answer", question |-> question,
                     top_k |-> arg_top_k]
             cfg == AppConfigLoad(fs)
             retriever == Retriever(fs)
         IN
         IF ~cfg.ok \/ ~retriever.ok
         THEN /\ inp' = req
              /\ out' = RagRaise(None, FALSE)
              /\ UNCHANGED llm_calls
         ELSE
         LET top_k == IF arg_top_k # 0 THEN arg_top_k ELSE cfg.top_k
         IN  \E ext \in ServiceExts(retriever, question) :
               RagRetrieved(req @@ [ext |-> ext],
                 retrieve_with_result(retriever, question, top_k, cfg.min_score,
                                      DefaultCandidatePool, ext))
    /\ UNCHANGED <<fs, state, REQUESTS_TOTAL, ANSWER_ATTEMPTS_TOTAL>>

Init ==
    /\ fs \in ServiceFiles
    /\ state = NoState
    /\ REQUESTS_TOTAL = NoCounts
    /\ ANSWER_ATTEMPTS_TOTAL = NoAttempts
    /\ llm_calls = 0
    /\ inp = NoCall
    /\ out = NoCall

Next == Startup \/ Healthz \/ Answer \/ RagAnswer

Spec == Init /\ [][Next]_vars

---------------------------------------------------------------------------
(* What the consumers do with a RetrievalResult *)

Consumed(o) == o.op \in {"answer", "rag_answer"} /\ o.result # None
Sufficient(retrieval) == Len(retrieval.hits) >= 1 /\ retrieval.should_answer
AnswerOf(o) == IF o.op = "answer" THEN o.answer ELSE o.value.answer
CitationsOf(o) == IF o.op = "answer" THEN o.citations ELSE o.value.citations

\* One step of the consumers: a generation call is made only on a sufficient
\* retrieval, and an insufficient one is answered with the fixed sentence.
GenerationStep ==
    /\ llm_calls' # llm_calls
         => (/\ llm_calls' = llm_calls + 1
             /\ Consumed(out')
             /\ Sufficient(out'.result))
    /\ (Consumed(out') /\ ~Sufficient(out'.result))
         => (/\ AnswerOf(out') = FixedAnswer
             /\ CitationsOf(out') = <<>>
             /\ ~out'.generation
             /\ llm_calls' = llm_calls)

\* C1: the /answer handler and rag_answer call the language model only when
\* the retrieval has at least one hit and should_answer is true; otherwise
\* the answer is exactly the fixed insufficient-information sentence, the
\* citations are empty and no generation call is made.
C1_GenerationOnlyWhenSufficient == [][GenerationStep]_vars

\* C1's case: the handler got hits that the gate refused, and answered with
\* the fixed sentence without a generation call.
C1_Witness ==
    /\ out.op = "answer"
    /\ out.result # None
    /\ out.result.hits # <<>>
    /\ ~out.result.should_answer
    /\ out.answer = FixedAnswer
    /\ out.citations = <<>>
    /\ llm_calls = 0

---------------------------------------------------------------------------
(* SpecTwice: retrieve_with_result called again and again with the same   *)
(* arguments on one Retriever, the services answering the same            *)

MaxCalls == 2

\* A plausible slip: a call uses up the lexical index of the object.
RetrieverAfterDroppingBm25(r) ==
    [r EXCEPT !.bm25 = FALSE]

\* The Retriever object after a retrieve_with_result call: the call and the
\* methods it calls assign no attribute of self (retrieve.py:160-343).
RetrieverAfter(r) == r

TwiceInit ==
    /\ fs \in { f \in Files : Retriever(f).ok /\ f.min_score = 2000 }
    /\ state = Retriever(fs)
    /\ REQUESTS_TOTAL = NoCounts
    /\ ANSWER_ATTEMPTS_TOTAL = NoAttempts
    /\ llm_calls = 0
    /\ \E query \in Queries, top_k \in 1..MaxTopK,
          candidate_pool \in 1..MaxPool, min_score \in MinScores :
         \E ext \in Exts(state, query, Max2(top_k, candidate_pool)) :
           inp = [op |-> "retrieve", query |-> query, top_k |-> top_k,
                  min_score |-> min_score, candidate_pool |-> candidate_pool,
                  ext |-> ext]
    /\ out = <<>>

RetrieveAgain ==
    /\ Len(out) < MaxCalls
    /\ out' = Append(out, retrieve_with_result(state, inp.query, inp.top_k,
                                               inp.min_score,
                                               inp.candidate_pool, inp.ext))
    /\ state' = RetrieverAfter(state)
    /\ UNCHANGED <<fs, REQUESTS_TOTAL, ANSWER_ATTEMPTS_TOTAL, llm_calls, inp>>

TwiceNext == RetrieveAgain

SpecTwice == TwiceInit /\ [][TwiceNext]_vars

---------------------------------------------------------------------------
(* LangChainRAG.__init__ (src/src/rag/langchain_rag.py:149-290)           *)

\* _to_document (langchain_rag.py:72-88); None for an unusable row.
_to_document(row) ==
    IF strip(row.text) = <<>> \/ strip_id(row.chunk_id) = "" THEN None
    ELSE [ok |-> TRUE, page_content |-> strip(row.text),
          metadata |-> [chunk_id |-> strip_id(row.chunk_id),
                        doc_id |-> row.doc_id, url |-> row.url,
                        start_char |-> row.start_char,
                        end_char |-> row.end_char]]

\* _to_document_from_meta_row (langchain_rag.py:91-108)
_to_document_from_meta_row(row) ==
    IF strip_id(row.id) = "" \/ strip(row.text) = <<>> THEN None
    ELSE [ok |-> TRUE, page_content |-> strip(row.text),
          metadata |-> [chunk_id |-> strip_id(row.id),
                        doc_id |-> row.metadata.doc_id,
                        url |-> row.metadata.url,
                        start_char |-> row.metadata.start_char,
                        end_char |-> row.metadata.end_char]]

\* langchain_rag.py:173-179: the documents of the usable rows, in file order
RECURSIVE UsableDocs(_)
UsableDocs(rows) ==
    IF rows = <<>> THEN <<>>
    ELSE LET doc == _to_document(Head(rows))
         IN  IF doc = None THEN UsableDocs(Tail(rows))
             ELSE <<doc>> \o UsableDocs(Tail(rows))

\* self.docs_by_chunk_id.get(chunk_id): of the documents with one id the last
\* one is kept (langchain_rag.py:179).
DocByChunkId(docs, chunk_id) ==
    LET i == LastIndex([j \in 1..Len(docs) |->
                          docs[j].metadata.chunk_id = chunk_id])
    IN  IF i > 0 THEN docs[i] ELSE None

\* langchain_rag.py:256-271: the docstore entries of the meta rows, as
\* [id, doc, row] in the order the ids were first stored; the row of a meta
\* row is its place in the file (embed_index.py:159-162).
RECURSIVE DocstoreLoop(_, _, _, _)
DocstoreLoop(docs, meta_rows, i, acc) ==
    IF i > Len(meta_rows) THEN acc
    ELSE LET row == meta_rows[i]
             chunk_id == strip_id(row.id)
             known == DocByChunkId(docs, chunk_id)
             doc == IF known # None THEN known
                    ELSE _to_document_from_meta_row(row)
         IN  IF chunk_id = "" \/ doc = None
             THEN DocstoreLoop(docs, meta_rows, i + 1, acc)
             ELSE DocstoreLoop(docs, meta_rows, i + 1,
                    Append(acc, [id |-> chunk_id, doc |-> doc, row |-> i - 1]))

\* A plausible slip: a size mismatch is let through.
SizeMismatchIgnored(entries, ntotal) == FALSE

\* langchain_rag.py:273  len(index_to_docstore_id) != index.ntotal
SizeMismatch(entries, ntotal) == Len(entries) # ntotal

HybridOff(reason) ==
    [vector_store |-> None, hybrid_enabled |-> FALSE,
     retrieval_mode |-> "langchain_bm25", hybrid_disabled_reason |-> reason]

\* LangChainRAG._init_faiss_vector_retriever (langchain_rag.py:226-290).
\* f.faiss tells whether the faiss imports and the reading of the index work.
_init_faiss_vector_retriever(f, docs) ==
    IF ~f.openai_api_key THEN HybridOff("missing_openai_api_key")
    ELSE IF f.index < 0 \/ ~f.meta_file THEN HybridOff("missing_faiss_artifacts")
    ELSE IF f.faiss = "import_error"
    THEN HybridOff("langchain_faiss_dependencies_unavailable")
    ELSE IF f.meta = <<>> THEN HybridOff("empty_meta_rows")
    ELSE IF f.faiss = "read_error"
    THEN HybridOff("failed_to_load_faiss_vectorstore")
    ELSE LET entries == DocstoreLoop(docs, f.meta, 1, <<>>)
         IN  IF SizeMismatch(entries, f.index)
             THEN HybridOff("faiss_meta_size_mismatch")
             ELSE [vector_store |-> [ok |-> TRUE, entries |-> entries],
                   hybrid_enabled |-> TRUE,
                   retrieval_mode |-> "langchain_hybrid",
                   hybrid_disabled_reason |-> ""]

\* The constructed LangChainRAG, or the exception __init__ raises
\* (langchain_rag.py:150-224).
LangChainRAG(f) ==
    IF ~f.config THEN [ok |-> FALSE, error |-> "FileNotFoundError"]
    ELSE IF ~f.chunks_file
    THEN [ok |-> FALSE, error |-> "Chunks file not found"]
    ELSE LET docs == UsableDocs(f.chunks)
         IN  IF docs = <<>> THEN [ok |-> FALSE, error |-> "No usable chunks"]
             ELSE LET v == IF f.hybrid
                           THEN _init_faiss_vector_retriever(f, docs)
                           ELSE HybridOff("config_hybrid_disabled")
                  IN  [ok |-> TRUE,
                       cfg |-> [top_k |-> f.top_k, min_score |-> f.min_score,
                                hybrid |-> f.hybrid],
                       min_score |-> f.min_score,
                       disable_generation |-> f.disable_generation,
                       docs |-> docs,
                       bm25_retriever |-> [k |-> Max2(f.top_k, 1)],
                       vector_store |-> v.vector_store,
                       hybrid_enabled |-> v.hybrid_enabled,
                       retrieval_mode |-> v.retrieval_mode,
                       hybrid_disabled_reason |-> v.hybrid_disabled_reason]

---------------------------------------------------------------------------
(* SpecConstruct: the two engines constructed over one set of files       *)

\* The files and environment of a construction.  Next to Files: whether
\* config.yaml has retrieval.hybrid set, whether chunks.jsonl and meta.jsonl
\* exist (an existing file may be empty) and whether faiss can be imported and
\* can read the index file.
ConstructFile(cf, c, k, h, ce, me, fa) ==
    [config |-> cf, min_score |-> 2000, top_k |-> MaxTopK,
     chunks |-> c.chunks, meta |-> c.meta, index |-> c.index,
     openai_api_key |-> k, hybrid |-> h, chunks_file |-> ce,
     meta_file |-> me, faiss |-> fa, disable_generation |-> FALSE]

ConstructFiles ==
    UNION { { ConstructFile(TRUE, c, k, h, ce, me, fa) :
                k \in BOOLEAN, h \in BOOLEAN,
                ce \in (IF c.chunks = <<>> THEN BOOLEAN ELSE {TRUE}),
                me \in (IF c.meta = <<>> THEN BOOLEAN ELSE {TRUE}),
                fa \in (IF c.index >= 0 /\ c.meta # <<>>
                        THEN {"ok", "import_error", "read_error"}
                        ELSE {"ok"}) } : c \in Corpora }
    \cup { ConstructFile(FALSE, c, TRUE, TRUE, TRUE, TRUE, "ok") :
             c \in { d \in Corpora : d.chunks # <<>> /\ d.meta # <<>> } }

\* What a construction ends with: the object, or the exception.
Constructed(engine, self) ==
    IF self.ok THEN [op |-> engine, raised |-> FALSE]
    ELSE [op |-> engine, raised |-> TRUE, error |-> self.error]

ConstructInit ==
    /\ fs \in ConstructFiles
    /\ state = NoState
    /\ REQUESTS_TOTAL = NoCounts
    /\ ANSWER_ATTEMPTS_TOTAL = NoAttempts
    /\ llm_calls = 0
    /\ inp = NoCall
    /\ out = NoCall

\* Retriever(...) (retrieve.py:70-134); faiss.read_index raising leaves
\* __init__ as the other exceptions do.
ConstructRetriever ==
    /\ out = NoCall
    /\ LET self == IF fs.faiss = "ok" \/ fs.index < 0 \/ fs.meta = <<>> \/ ~fs.config
                   THEN Retriever(fs)
                   ELSE [ok |-> FALSE, error |-> "faiss"]
       IN  /\ state' = [started |-> FALSE, engine |-> "Retriever", self |-> self]
           /\ out' = Constructed("Retriever", self)
    /\ inp' = [op |-> "Retriever"]
    /\ UNCHANGED <<fs, REQUESTS_TOTAL, ANSWER_ATTEMPTS_TOTAL, llm_calls>>

\* LangChainRAG(...) (langchain_rag.py:150-224)
ConstructLangChainRAG ==
    /\ out = NoCall
    /\ LET self == LangChainRAG(fs)
       IN  /\ state' = [started |-> FALSE, engine |-> "LangChainRAG",
                        self |-> self]
           /\ out' = Constructed("LangChainRAG", self)
    /\ inp' = [op |-> "LangChainRAG"]
    /\ UNCHANGED <<fs, REQUESTS_TOTAL, ANSWER_ATTEMPTS_TOTAL, llm_calls>>

ConstructNext == ConstructRetriever \/ ConstructLangChainRAG

SpecConstruct == ConstructInit /\ [][ConstructNext]_vars

\* The rows of either source that have an id and a text.
UsableRows(f) == Bm25ChunkRows(f.chunks) \o Bm25MetaRows(f.meta)

\* C12 (as claimed): constructing the Retriever fails whenever the input
\* sources hold zero usable chunks, a row with empty text or empty id not
\* counting as usable.
C12_NoUsableChunkFails ==
    (out.op = "Retriever" /\ UsableRows(fs) = <<>>) => out.raised

\* The dense index holds a number of vectors other than the number of rows of
\* the dense corpus (meta.jsonl), and dense retrieval is configured: the
\* config, the files, the API key and the FAISS libraries are all there.
DenseSizeMismatch(f) ==
    /\ f.config /\ f.chunks_file /\ f.meta_file
    /\ f.openai_api_key /\ f.hybrid /\ f.faiss = "ok"
    /\ f.index >= 0 /\ f.meta # <<>>
    /\ Len(f.meta) # f.index

\* C18 (as claimed): a mismatch between the vector count of the dense index
\* and the row count of the dense corpus is detected at construction and is
\* fatal: the constructor raises, it does not fall back to lexical-only.
C18_SizeMismatchIsFatal ==
    (out.op \in {"Retriever", "LangChainRAG"} /\ DenseSizeMismatch(fs))
        => out.raised

---------------------------------------------------------------------------
(* The candidates and hits of one retrieve_with_result call (SpecRetrieve) *)

Ids(entries) == { entries[i].id : i \in 1..Len(entries) }

\* The ids of the chunk-record rows whose text is empty.
EmptyTextIds(f) ==
    { strip_id(f.chunks[i].chunk_id) :
        i \in { j \in 1..Len(f.chunks) : strip(f.chunks[j].text) = <<>> } }
    \ {""}

\* C13 (as claimed): a chunk-record row whose text is empty never appears in
\* the dense candidate set, the lexical candidate set or the hits of a
\* retrieve_with_result call, whatever the dense meta source holds for its id.
C13_EmptyTextRowNeverRetrieved ==
    Returned =>
      \A id \in EmptyTextIds(fs) :
         /\ id \notin Ids(out.dense)
         /\ id \notin Ids(out.bm25)
         /\ id \notin Ids(out.result.hits)

\* The usable chunks (rows of the lexical index) that hold a token of the query.
MatchingRows(r, query) ==
    { i \in 1..Len(r.bm25_tokens) :
        SeqSet(r.bm25_tokens[i]) \cap SeqSet(_tokenize(query)) # {} }

\* C14 (as claimed): for a corpus with at least one chunk and a query with a
\* token that occurs in some chunk, the lexical candidate set of width
\* max(top_k, candidate_pool) contains that chunk, and its Hit has coverage > 0.
C14_MatchingChunkIsLexicalCandidate ==
    Returned =>
      LET r == Retriever(fs)
      IN  \A i \in MatchingRows(r, inp.query) :
            /\ r.bm25_ids[i] \in Ids(out.bm25)
            /\ \A h \in 1..Len(out.result.hits) :
                 out.result.hits[h].id = r.bm25_ids[i]
                   => out.result.hits[h].coverage > 0

\* The rank of a chunk in one candidate set; retrieve.py:259-260 gives a chunk
\* the family did not return the rank 10_000.
BM25RankOf(id) ==
    IF HasKey(out.bm25, id) THEN Get(out.bm25, id).bm25_rank ELSE 10000

DenseRankOf(id) ==
    IF HasKey(out.dense, id) THEN Get(out.dense, id).dense_rank ELSE 10000

\* C15 (as claimed): the hits of a RetrievalResult are ordered by fused score
\* descending, and two hits of equal fused score are ordered by their BM25
\* rank first and by their dense rank second.
C15_HitsOrderedWithRankTieBreak ==
    Returned =>
      \A i \in 1..(Len(out.result.hits) - 1) :
         LET a == out.result.hits[i]
             b == out.result.hits[i + 1]
         IN  /\ a.score >= b.score
             /\ a.score = b.score
                  => \/ BM25RankOf(a.id) < BM25RankOf(b.id)
                     \/ /\ BM25RankOf(a.id) = BM25RankOf(b.id)
                        /\ DenseRankOf(a.id) <= DenseRankOf(b.id)

\* C16: for every positive top_k the hits of a RetrievalResult are at most
\* top_k and no two of them share a chunk id, also when a chunk is returned by
\* both indices or the corpus sources repeat an id.
C16_AtMostTopKDistinctHits ==
    Returned =>
      /\ Len(out.result.hits) <= inp.top_k
      /\ \A i, j \in 1..Len(out.result.hits) :
            i # j => out.result.hits[i].id # out.result.hits[j].id

\* C16's case: a chunk came from both indices, the two families returned
\* more entries than top_k, and top_k hits were returned.
C16_Witness ==
    /\ Returned
    /\ Ids(out.dense) \cap Ids(out.bm25) # {}
    /\ Len(out.dense) + Len(out.bm25) > inp.top_k
    /\ Len(out.result.hits) = inp.top_k

\* C17 (as claimed): when only one index family produced candidates (mode
\* dense-only or bm25-only), the fused score of every hit equals that hit's
\* coverage.
C17_SingleFamilyScoreIsCoverage ==
    (Returned /\ out.result.mode \in {"dense-only", "bm25-only"}) =>
      \A i \in 1..Len(out.result.hits) :
         out.result.hits[i].score = out.result.hits[i].coverage

---------------------------------------------------------------------------
(* LangChainRAG.answer (src/src/rag/langchain_rag.py:298-473)             *)

Some(v) == [ok |-> TRUE, v |-> v]

\* _clamp01 (langchain_rag.py:57-62)
_clamp01(x) == IF x < 0 THEN 0 ELSE IF x > Scale THEN Scale ELSE x

\* _coverage of langchain_rag.py:49-54, on the question and a text.
LcCoverage(question, text) == _coverage(_tokenize(question), _tokenize(text))

\* self.bm25_retriever.invoke(question) (langchain_rag.py:319): the first
\* self.bm25_retriever.k documents in the order the BM25 scorer gives them;
\* order lists the places of self.docs by BM25 score.
BM25Invoke(self, order) ==
    [i \in 1..Min2(self.bm25_retriever.k, Len(order)) |-> self.docs[order[i]]]

\* LangChainRAG._vector_hits (langchain_rag.py:298-315).  vec is what
\* similarity_search_with_score does: it raises, or it returns <<entry, score>>
\* pairs by rank.  The result is the list and self after the call.
_vector_hits(self, vec) ==
    IF self.vector_store = None THEN [hits |-> <<>>, self |-> self]
    ELSE IF vec.failed
    THEN [hits |-> <<>>,
          self |-> [self EXCEPT !.hybrid_disabled_reason = "vector_query_failed"]]
    ELSE [hits |-> [i \in 1..Len(vec.found) |->
                      [doc |-> self.vector_store.entries[vec.found[i][1]].doc,
                       dense_score |-> _clamp01(vec.found[i][2]),
                       rank |-> i]],
          self |-> self]

\* merged.setdefault(chunk_id, {...}) (langchain_rag.py:328-338, 350-360)
LcEntry(merged, chunk_id, doc) ==
    IF HasKey(merged, chunk_id) THEN Get(merged, chunk_id)
    ELSE [id |-> chunk_id, doc |-> doc, coverage |-> 0, bm25_score |-> None,
          dense_score |-> None, bm25_rank |-> None, dense_rank |-> None]

\* The loop over bm25_docs (langchain_rag.py:323-342).
RECURSIVE LcMergeBm25(_, _, _, _)
LcMergeBm25(question, bm25_docs, rank, merged) ==
    IF rank > Len(bm25_docs) THEN merged
    ELSE LET doc == bm25_docs[rank]
             chunk_id == doc.metadata.chunk_id
             cov == LcCoverage(question, doc.page_content)
             entry == LcEntry(merged, chunk_id, doc)
         IN  LcMergeBm25(question, bm25_docs, rank + 1,
               DictPut(merged,
                 [entry EXCEPT !.doc = doc,
                               !.coverage = Max2(entry.coverage, cov),
                               !.bm25_score = Some(cov),
                               !.bm25_rank = Some(rank)]))

\* The loop over the vector hits (langchain_rag.py:345-364).
RECURSIVE LcMergeDense(_, _, _, _)
LcMergeDense(question, hits, i, merged) ==
    IF i > Len(hits) THEN merged
    ELSE LET doc == hits[i].doc
             chunk_id == doc.metadata.chunk_id
             cov == LcCoverage(question, doc.page_content)
             entry == LcEntry(merged, chunk_id, doc)
         IN  LcMergeDense(question, hits, i + 1,
               DictPut(merged,
                 [entry EXCEPT !.coverage = Max2(entry.coverage, cov),
                               !.dense_score = Some(hits[i].dense_score),
                               !.dense_rank = Some(hits[i].rank)]))

OrZero(opt) == IF opt = None THEN 0 ELSE opt.v

\* rrf_component (langchain_rag.py:377-381)
LcRrf(opt_rank) == IF opt_rank = None THEN 0 ELSE Scale \div (1 + opt_rank.v)

\* final_score (langchain_rag.py:374-384)
LcFinalScore(self, entry) ==
    IF self.hybrid_enabled
    THEN (40 * _clamp01(OrZero(entry.bm25_score))
          + 40 * _clamp01(OrZero(entry.dense_score))
          + 20 * _clamp01(LcRrf(entry.bm25_rank) + LcRrf(entry.dense_rank)))
         \div 100
    ELSE _clamp01(entry.coverage)

\* One element of ranked (langchain_rag.py:386-395).
LcRanked(self, entry) ==
    [chunk_id |-> entry.id, doc |-> entry.doc,
     score |-> _clamp01(LcFinalScore(self, entry)),
     dense_score |-> entry.dense_score, bm25_score |-> entry.bm25_score,
     coverage |-> _clamp01(entry.coverage)]

\* LangChainRAG._retrieve_ranked after the invoke (langchain_rag.py:321-398):
\* ranked[:top_k] and self after the call.
RankDocs(self, question, top_k, bm25_docs, vec) ==
    LET lexical == LcMergeBm25(question, bm25_docs, 1, <<>>)
        v == IF self.hybrid_enabled THEN _vector_hits(self, vec)
             ELSE [hits |-> <<>>, self |-> self]
        merged == LcMergeDense(question, v.hits, 1, lexical)
        ranked == [i \in 1..Len(merged) |-> LcRanked(self, merged[i])]
        order == SortedDesc(Len(ranked), [i \in 1..Len(ranked) |-> ranked[i].score])
    IN  [ranked |-> [i \in 1..Min2(top_k, Len(ranked)) |-> ranked[order[i]]],
         self |-> v.self]

\* fallback_reason (langchain_rag.py:407)
FallbackReason(self) ==
    IF self.cfg.hybrid /\ ~self.hybrid_enabled
    THEN self.hybrid_disabled_reason ELSE ""

\* The citations of LangChainRAG.answer (langchain_rag.py:445-461).
LcCitations(ranked) ==
    [i \in 1..Len(ranked) |->
       [cite |-> i, score |-> ranked[i].score,
        chunk_id |-> ranked[i].doc.metadata.chunk_id,
        text |-> ranked[i].doc.page_content,
        metadata |-> ranked[i].doc.metadata,
        dense_score |-> ranked[i].dense_score,
        bm25_score |-> ranked[i].bm25_score,
        coverage |-> ranked[i].coverage]]

\* LangChainRAG.answer from fallback_reason on (langchain_rag.py:407-473);
\* llm is the stripped text the answer chain returns.
LangChainRagResult(self, ranked, llm) ==
    LET fallback_reason == FallbackReason(self)
    IN  IF ranked = <<>>
        THEN [answer |-> FixedAnswer, citations |-> <<>>,
              mode |-> self.retrieval_mode, should_answer |-> FALSE,
              reason |-> [base |-> "no_hits", fallback |-> fallback_reason],
              generation |-> FALSE]
        ELSE IF ranked[1].score < self.min_score
        THEN [answer |-> FixedAnswer, citations |-> <<>>,
              mode |-> self.retrieval_mode, should_answer |-> FALSE,
              reason |-> [base |-> "low_confidence",
                          best_score |-> ranked[1].score,
                          fallback |-> fallback_reason],
              generation |-> FALSE]
        ELSE [answer |-> (IF self.disable_generation THEN GenerationDisabled
                          ELSE IF llm = "" THEN FixedAnswer ELSE llm),
              citations |-> LcCitations(ranked),
              mode |-> self.retrieval_mode, should_answer |-> TRUE,
              reason |-> [base |-> "ok", fallback |-> fallback_reason],
              generation |-> ~self.disable_generation]

\* k of LangChainRAG.answer (langchain_rag.py:402); top_k 0 stands for None.
LcK(self, top_k) == Max2(IF top_k # 0 THEN top_k ELSE self.cfg.top_k, 1)

\* self.bm25_retriever.k = top_k (langchain_rag.py:318)
SetBm25K(self, k) == [self EXCEPT !.bm25_retriever = [k |-> k]]

\* LangChainRAG.answer run with no other call on the object.
LcAnswer(self, call, order) ==
    LET k == LcK(self, call.top_k)
        s1 == SetBm25K(self, k)
        r == RankDocs(s1, call.question, k, BM25Invoke(s1, order[call.question]),
                      call.vec)
    IN  LangChainRagResult(r.self, r.ranked, call.llm)

---------------------------------------------------------------------------
(* SpecConcurrent: answer calls of several threads on one LangChainRAG    *)

Threads == {1, 2}

LcQuestions == { <<"SNAP", "?">>, <<"zebra">> }

\* The orders a BM25 scorer can give n documents.
Perms(n) ==
    { p \in [1..n -> 1..n] : \A i, j \in 1..n : i # j => p[i] # p[j] }

ConcurrentFiles ==
    { [ConstructFile(TRUE, [chunks |-> <<RowA, RowS>>, meta |-> <<>>,
                            index |-> -1],
                     FALSE, TRUE, TRUE, FALSE, "ok")
         EXCEPT !.disable_generation = d] : d \in BOOLEAN }
    \cup { [ConstructFile(TRUE, c, TRUE, TRUE, TRUE, TRUE, "ok")
              EXCEPT !.disable_generation = TRUE] :
             c \in { [chunks |-> <<RowA, RowS>>, meta |-> <<MetaA, MetaS>>,
                      index |-> 2],
                     [chunks |-> <<RowA, RowB>>, meta |-> <<MetaA>>,
                      index |-> 2] } }

\* What similarity_search_with_score may do for one call.
VectorAnswers(self) ==
    IF self.vector_store = None THEN { [failed |-> FALSE, found |-> <<>>] }
    ELSE { [failed |-> TRUE, found |-> <<>>],
           [failed |-> FALSE, found |-> << <<1, 5000>> >>] }

\* What the answer chain may return for one call, stripped.
LlmAnswers(self) ==
    IF self.disable_generation THEN {""} ELSE {"", "An answer [1]."}

\* The answer calls one thread may make.
LcCalls(self) ==
    [question : LcQuestions, top_k : 0..MaxTopK,
     vec : VectorAnswers(self), llm : LlmAnswers(self)]

ConcurrentInit ==
    /\ fs \in ConcurrentFiles
    /\ state = [self |-> LangChainRAG(fs),
                pc |-> [c \in Threads |-> "start"],
                k |-> [c \in Threads |-> 0],
                bm25_docs |-> [c \in Threads |-> <<>>],
                ranked |-> [c \in Threads |-> <<>>]]
    /\ REQUESTS_TOTAL = NoCounts
    /\ ANSWER_ATTEMPTS_TOTAL = NoAttempts
    /\ llm_calls = 0
    /\ \E calls \in [Threads -> LcCalls(LangChainRAG(fs))],
          order \in [LcQuestions -> Perms(Len(LangChainRAG(fs).docs))] :
          inp = [op |-> "answer", calls |-> calls, order |-> order]
    /\ out = [c \in Threads |-> NoCall]

\* langchain_rag.py:402 and 318: k, and self.bm25_retriever.k = top_k
LcSetK(c) ==
    /\ state.pc[c] = "start"
    /\ state' = [state EXCEPT
                   !.pc[c] = "invoke",
                   !.k[c] = LcK(state.self, inp.calls[c].top_k),
                   !.self = SetBm25K(state.self,
                                     LcK(state.self, inp.calls[c].top_k))]
    /\ UNCHANGED <<fs, REQUESTS_TOTAL, ANSWER_ATTEMPTS_TOTAL, llm_calls, inp, out>>

\* langchain_rag.py:319: bm25_docs = self.bm25_retriever.invoke(question)
LcInvoke(c) ==
    /\ state.pc[c] = "invoke"
    /\ state' = [state EXCEPT
                   !.pc[c] = "rank",
                   !.bm25_docs[c] =
                      BM25Invoke(state.self, inp.order[inp.calls[c].question])]
    /\ UNCHANGED <<fs, REQUESTS_TOTAL, ANSWER_ATTEMPTS_TOTAL, llm_calls, inp, out>>

LcRankDone(c, r) ==
    state' = [state EXCEPT !.pc[c] = "finish", !.ranked[c] = r.ranked,
                           !.self = r.self]

\* langchain_rag.py:321-398: the rest of _retrieve_ranked
LcRank(c) ==
    /\ state.pc[c] = "rank"
    /\ LcRankDone(c, RankDocs(state.self, inp.calls[c].question, state.k[c],
                              state.bm25_docs[c], inp.calls[c].vec))
    /\ UNCHANGED <<fs, REQUESTS_TOTAL, ANSWER_ATTEMPTS_TOTAL, llm_calls, inp, out>>

LcFinishWith(c, result) ==
    /\ out' = [out EXCEPT ![c] = result]
    /\ llm_calls' = llm_calls + (IF result.generation THEN 1 ELSE 0)

\* langchain_rag.py:407-473: the gate, the generation and the result
LcFinish(c) ==
    /\ state.pc[c] = "finish"
    /\ LcFinishWith(c, LangChainRagResult(state.self, state.ranked[c],
                                          inp.calls[c].llm))
    /\ state' = [state EXCEPT !.pc[c] = "done"]
    /\ UNCHANGED <<fs, REQUESTS_TOTAL, ANSWER_ATTEMPTS_TOTAL, inp>>

ConcurrentNext ==
    \E c \in Threads : LcSetK(c) \/ LcInvoke(c) \/ LcRank(c) \/ LcFinish(c)

SpecConcurrent == ConcurrentInit /\ [][ConcurrentNext]_vars

\* C19 (as claimed): no answer call writes to state that calls share, so in
\* any interleaving of concurrent calls on one LangChainRAG each call returns
\* what it returns when it runs alone on the constructed object.
C19_ConcurrentCallAsAlone ==
    \A c \in Threads :
       (inp.op = "answer" /\ state.pc[c] = "done")
          => out[c] = LcAnswer(LangChainRAG(fs), inp.calls[c], inp.order)

---------------------------------------------------------------------------
(* The /answer handler with generation disabled (Spec)                    *)

\* One step of the /answer handler with generation disabled, on a retrieval
\* that is sufficient: the response of the step.
DisabledGenerationStep ==
    (/\ out'.op = "answer"
     /\ out'.result # None
     /\ Sufficient(out'.result)
     /\ state.settings.disable_generation)
      => /\ out'.status = 200
         /\ out'.answer = GenerationDisabled
         /\ Len(out'.citations) = Len(out'.result.hits)
         /\ \A i \in 1..Len(out'.result.hits) :
               /\ out'.citations[i].cite = i
               /\ out'.citations[i].chunk_id = out'.result.hits[i].id
         /\ ~out'.generation
         /\ llm_calls' = llm_calls

\* C20: with generation disabled, every /answer request whose retrieval has
\* should_answer true and n >= 1 hits is answered 200 with the answer
\* "(generation disabled)" and exactly n citations labelled [1]..[n] in the
\* order of the hits, and no language-model call is made.
C20_DisabledGenerationAnswer == [][DisabledGenerationStep]_vars

\* C20's case: such a request was answered, with two hits.
C20_Witness ==
    /\ out.op = "answer"
    /\ state.settings.disable_generation
    /\ out.result # None
    /\ out.result.should_answer
    /\ Len(out.result.hits) = 2
    /\ out.answer = GenerationDisabled
    /\ Len(out.citations) = 2
    /\ llm_calls = 0

---------------------------------------------------------------------------
(* The probes and the guards of the API (Spec)                            *)

\* One step that serves GET /healthz: the response of the step.
HealthzStep ==
    inp'.op = "healthz"
      => out' = [op |-> "healthz", status |-> 200, body |-> [status |-> "ok"]]

\* C21: GET /healthz is answered 200 with the body {"status": "ok"} in every
\* state of the service, also after a failed startup.
C21_HealthzAlwaysOk == [][HealthzStep]_vars

\* C21's case: /healthz answered 200 by a service whose startup failed.
C21_Witness ==
    /\ out.op = "healthz"
    /\ state.startup_error # ""
    /\ out.status = 200
    /\ out.body = [status |-> "ok"]

---------------------------------------------------------------------------
(* Further properties of one retrieve_with_result call (SpecRetrieve)     *)

\* C22: a query with no ASCII letter or digit yields zero lexical candidates
\* and the lexical step raises nothing (a call that raises has dense
\* retrieval configured); when dense retrieval yields nothing either, the
\* result has mode none, no hits, should_answer false and the reason
\* "no_candidates".
C22_TokenlessQueryNoCandidates ==
    (Retrieved /\ _tokenize(inp.query) = <<>>) =>
      /\ out.raised => DenseConfigured
      /\ ~out.raised =>
           /\ out.bm25 = <<>>
           /\ out.dense = <<>> =>
                /\ out.result.mode = "none"
                /\ out.result.hits = <<>>
                /\ ~out.result.should_answer
                /\ out.result.reason = "no_candidates"

\* C22's case: such a query on a Retriever that has a lexical index, with no
\* dense candidates.
C22_Witness ==
    /\ Returned
    /\ _tokenize(inp.query) = <<>>
    /\ inp.query # <<>>
    /\ Bm25ChunkRows(fs.chunks) # <<>>
    /\ out.bm25 = <<>>
    /\ out.dense = <<>>
    /\ out.result.reason = "no_candidates"

---------------------------------------------------------------------------
(* The reason of LangChainRAG.answer (SpecConcurrent)                     *)

\* C23 (as claimed): whenever hybrid retrieval is configured and the dense
\* results of a LangChainRAG.answer call could not be obtained (the dense
\* setup failed at construction, or the vector query failed during the call),
\* the reason of the result embeds a fallback reason.
C23_FallbackReasonEmbedded ==
    \A c \in Threads :
       (/\ inp.op = "answer"
        /\ state.pc[c] = "done"
        /\ fs.hybrid
        /\ \/ ~state.self.hybrid_enabled
           \/ inp.calls[c].vec.failed)
          => out[c].reason.fallback # ""

---------------------------------------------------------------------------
(* The fused score and the payload of a hit (SpecRetrieve)                *)

\* The candidate union of the call that returned.
MergedOut == MergeBm25(out.bm25, MergeDense(out.dense, <<>>))

\* score / maximum, 0 when the maximum is 0
NormAsClaimed(score, maximum) ==
    IF maximum = 0 THEN 0 ELSE Div(score * Scale, maximum)

\* The fused score as the claim words it, for one candidate of the union.
HybridScoreAsClaimed(feats, merged, coverage) ==
    LET rrf == (IF feats.has_dense THEN Scale \div (1 + feats.dense_rank) ELSE 0)
               + (IF feats.has_bm25 THEN Scale \div (1 + feats.bm25_rank) ELSE 0)
        dense_norm == NormAsClaimed(feats.dense_score,
                        MaxOf([i \in 1..Len(merged) |-> merged[i].dense_score]))
        bm25_norm == NormAsClaimed(feats.bm25_score,
                        MaxOf([i \in 1..Len(merged) |-> merged[i].bm25_score]))
    IN  Max2(0, Min2(Scale,
          (35 * Max2(0, Min2(Scale, rrf)) + 30 * dense_norm + 20 * bm25_norm
           + 15 * coverage) \div 100))

\* C24 (as claimed): in hybrid mode the fused score of each candidate is
\* clamp01(0.35*clamp01(rrf) + 0.30*dense_norm + 0.20*bm25_norm
\* + 0.15*coverage), rrf adding 1/(1+rank) for each index family the
\* candidate is in, the norms being the score over the maximum of the family
\* in the candidate union (0 when that maximum is 0).
C24_HybridScoreFormula ==
    (Returned /\ out.result.mode = "hybrid") =>
      \A i \in 1..Len(out.result.hits) :
         LET hit == out.result.hits[i]
         IN  hit.score = HybridScoreAsClaimed(Get(MergedOut, hit.id), MergedOut,
                                              hit.coverage)

\* The rows of chunks.jsonl and of meta.jsonl that carry an id.
ChunkRowsOf(id) ==
    { i \in 1..Len(fs.chunks) : strip_id(fs.chunks[i].chunk_id) = id }

MetaRowsOf(id) ==
    { i \in 1..Len(fs.meta) : strip_id(fs.meta[i].id) = id }

\* C25: the text and the metadata of every hit are those of a chunk-record
\* row with the hit's id when there is one, and of the dense meta row with
\* that id otherwise, doc_id, url, start_char and end_char unchanged; a dense
\* candidate with no chunk-record row is not dropped: when the candidate
\* union fits in top_k, every dense candidate is a hit.
C25_HitPayloadFromSourceRow ==
    Returned =>
      /\ \A i \in 1..Len(out.result.hits) :
            LET hit == out.result.hits[i]
            IN  IF ChunkRowsOf(hit.id) # {}
                THEN \E j \in ChunkRowsOf(hit.id) :
                        /\ hit.text = fs.chunks[j].text
                        /\ hit.metadata.doc_id = fs.chunks[j].doc_id
                        /\ hit.metadata.url = fs.chunks[j].url
                        /\ hit.metadata.start_char = fs.chunks[j].start_char
                        /\ hit.metadata.end_char = fs.chunks[j].end_char
                ELSE \E j \in MetaRowsOf(hit.id) :
                        /\ hit.text = fs.meta[j].text
                        /\ hit.metadata = fs.meta[j].metadata
      /\ Len(MergedOut) <= inp.top_k
           => Ids(out.dense) \subseteq Ids(out.result.hits)

\* C25's case: a dense candidate with no chunk-record row, next to a
\* chunks.jsonl that has rows, returned as a hit with the meta row's text.
C25_Witness ==
    /\ Returned
    /\ fs.chunks # <<>>
    /\ \E i \in 1..Len(out.result.hits) :
          LET hit == out.result.hits[i]
          IN  /\ HasKey(out.dense, hit.id)
              /\ ChunkRowsOf(hit.id) = {}
              /\ \E j \in MetaRowsOf(hit.id) : hit.text = fs.meta[j].text
                                                /\ hit.text # <<>>

---------------------------------------------------------------------------
(* The guards of POST /answer (Spec)                                      *)

\* The step of a POST /answer reached the retrieval call: the request was
\* handed to retrieve_with_result together with what the services answered.
ReachedRetrieval(req) == "ext" \in DOMAIN req

\* One step that serves POST /answer, as to the startup guard.
StartupGuardStep ==
    out'.op = "answer" =>
      /\ ~Retriever(fs).ok =>
           /\ out'.status = 503
           /\ ~ReachedRetrieval(inp')
           /\ out'.result = None
           /\ ANSWER_ATTEMPTS_TOTAL' = ANSWER_ATTEMPTS_TOTAL
           /\ llm_calls' = llm_calls
      /\ ReachedRetrieval(inp') =>
           /\ state.retriever # None
           /\ state.cfg # None

\* C26: if the construction of the Retriever fails at API startup, every
\* later POST /answer is answered 503 and does not reach retrieval; whenever
\* /answer reaches the retrieval step, the retriever and the cfg of the
\* application state are both set.
C26_FailedStartupNeverRetrieves == [][StartupGuardStep]_vars

\* C26's case: config.yaml loaded, the Retriever could not be built, and a
\* POST /answer was answered 503.
C26_Witness ==
    /\ out.op = "answer"
    /\ fs.config
    /\ ~Retriever(fs).ok
    /\ state.retriever = None
    /\ out.status = 503

---------------------------------------------------------------------------
(* The shape of a RetrievalResult (SpecRetrieve)                          *)

\* C27: every RetrievalResult returned by retrieve_with_result (top_k >= 1)
\* has should_answer true exactly when its reason is "ok", has hits when
\* should_answer is true, and has no hits exactly when its mode is none, the
\* reason then being "no_candidates".
C27_ResultShape ==
    (Returned /\ inp.top_k >= 1) =>
      /\ out.result.should_answer <=> (out.result.reason = "ok")
      /\ out.result.should_answer => out.result.hits # <<>>
      /\ (out.result.hits = <<>>) <=> (out.result.mode = "none")
      /\ out.result.hits = <<>> => out.result.reason = "no_candidates"

\* C27's case: an answerable result next to candidates of both families.
C27_Witness ==
    /\ Returned
    /\ inp.top_k >= 1
    /\ out.result.should_answer
    /\ out.result.reason = "ok"
    /\ out.result.mode = "hybrid"
    /\ Len(out.result.hits) = inp.top_k

\* The token lists of the lexical index of the Retriever over fs.
LexicalIndex == Retriever(fs).bm25_tokens

\* The call is made on a Retriever with a lexical index and no dense index,
\* with a query that has tokens none of which occurs in a chunk.
UnmatchedLexicalQuery ==
    /\ Returned
    /\ fs.index < 0
    /\ LexicalIndex # <<>>
    /\ _tokenize(inp.query) # <<>>
    /\ \A i \in 1..Len(LexicalIndex) :
          SeqSet(LexicalIndex[i]) \cap SeqSet(_tokenize(inp.query)) = {}

\* What such a call returns, the number of lexical candidates left aside.
UnmatchedLexicalResult ==
    /\ out.result.mode = "bm25-only"
    /\ out.result.hits # <<>>
    /\ ~out.result.should_answer
    /\ out.result.reason = "low_lexical_support"

\* C28 (as claimed): such a query still gets min(max(top_k, candidate_pool),
\* corpus size) lexical candidates, and the result has mode bm25-only, hits,
\* should_answer false and the reason "low_lexical_support".
C28_UnmatchedQueryAsClaimed ==
    UnmatchedLexicalQuery =>
      /\ Len(out.bm25) = Min2(Max2(inp.top_k, inp.candidate_pool),
                              Len(LexicalIndex))
      /\ UnmatchedLexicalResult

\* The ids of the first n rows of the lexical index.
FirstIds(n) == { Retriever(fs).bm25_ids[i] : i \in 1..n }

\* C28 (amended): such a query gets one lexical candidate for each id among
\* the first min(max(top_k, candidate_pool), corpus size) rows of the index
\* (rows that share an id make one candidate), and the result has mode
\* bm25-only, hits, should_answer false and the reason "low_lexical_support".
C28_UnmatchedQuery ==
    UnmatchedLexicalQuery =>
      /\ Len(out.bm25) =
           Cardinality(FirstIds(Min2(Max2(inp.top_k, inp.candidate_pool),
                                     Len(LexicalIndex))))
      /\ UnmatchedLexicalResult

\* C28's case: such a call on a corpus of several chunks, with two
\* candidates that matched nothing.
C28_Witness ==
    /\ UnmatchedLexicalQuery
    /\ Len(out.bm25) = 2
    /\ UnmatchedLexicalResult

\* One step that serves POST /answer, as to the API key: with a key
\* configured and a header that is absent or different.
ApiKeyGuardStep ==
    (/\ out'.op = "answer"
     /\ state.settings.api_key # ""
     /\ inp'.x_api_key # state.settings.api_key)
      => /\ out'.status = (IF state.startup_error # "" THEN 503 ELSE 401)
         /\ ~ReachedRetrieval(inp')
         /\ out'.result = None
         /\ ~out'.generation
         /\ ANSWER_ATTEMPTS_TOTAL' = ANSWER_ATTEMPTS_TOTAL
         /\ llm_calls' = llm_calls

\* C29: when an API key is configured, a POST /answer whose X-API-Key header
\* is missing or different performs no retrieval and no generation and is
\* answered 401, or 503 when the startup failed, which is checked first.
C29_WrongKeyNeverRetrieves == [][ApiKeyGuardStep]_vars

\* C29's case: a request with no key answered 401 by a service that started.
C29_Witness ==
    /\ out.op = "answer"
    /\ state.settings.api_key = "secret"
    /\ state.startup_error = ""
    /\ inp.x_api_key = ""
    /\ out.status = 401
    /\ llm_calls = 0

\* The status label of REQUESTS_TOTAL for an HTTP status.
StatusLabel(status) ==
    CASE status = 200 -> "200"
      [] status = 401 -> "401"
      [] status = 500 -> "500"
      [] status = 503 -> "503"

\* One step that serves POST /answer, as to the request counter.
RequestCountedStep ==
    out'.op = "answer"
      => REQUESTS_TOTAL' = Inc(REQUESTS_TOTAL, StatusLabel(out'.status))

\* C30 (as claimed): every POST /answer request increments REQUESTS_TOTAL
\* exactly once, under the status label of the HTTP status it is answered
\* with, on every path through the handler, a retrieval that raises included.
C30_EveryRequestCountedOnce == [][RequestCountedStep]_vars

=============================================================================
